---- MODULE Spec2Model ----
(***************************************************************************)
(* Access-control and transactional core of the project-management API:    *)
(* the permission resolvers (both copies), the project controller's        *)
(* multi-entity operations and membership operations, the write handlers   *)
(* of the task and note controllers with their route validators, and the   *)
(* read handlers and listings, over a MongoDB store with transactions.     *)
(* Every request is a sequence of steps, one per awaited store call; the   *)
(* steps of requests in different slots interleave.                        *)
(***************************************************************************)
EXTENDS Integers, FiniteSets, Sequences, TLC

(***************************************************************************)
(* Bounds of the model.                                                    *)
(***************************************************************************)
MaxProjects == 2
MaxMemberRows == 2
MaxRequests == 2
MaxWritesWhileListing == 1

Slots == {"a", "b"}
Users == {"u1", "u2", "u3"}
Names == {"Alpha", "Beta"}
ProjIdSeq == <<"p1", "p2", "p3", "p4">>
ProjIds == {ProjIdSeq[i] : i \in 1..MaxProjects}
SeedProject == "p0"
BadId == "not-an-object-id"
NoSuchEmail == "nobody@x"
NoRole == "(omitted)"
NoRow == -1

(***************************************************************************)
(* Program constants.                                                      *)
(***************************************************************************)
UserRolesEnum == [ADMIN |-> "admin", PROJECT_ADMIN |-> "project_admin", MEMBER |-> "member"]
AvailableUserRoles == {UserRolesEnum.ADMIN, UserRolesEnum.PROJECT_ADMIN, UserRolesEnum.MEMBER}
RoleInputs == AvailableUserRoles \cup {NoRole, "owner", "ADMIN", "Member"}
TaskStatusEnum ==
  [TODO |-> "todo", PRIORITY |-> "priority", IN_PROGRESS |-> "in_progress",
   IN_REVIEW |-> "in_review", CANCELLED |-> "cancelled", DONE |-> "done"]
AvailableTaskStatus == {TaskStatusEnum[k] : k \in DOMAIN TaskStatusEnum}
TaskPrioritiesEnum == [LOW |-> "low", MEDIUM |-> "medium", HIGH |-> "high"]
AvailableTaskPriorities == {TaskPrioritiesEnum[k] : k \in DOMAIN TaskPrioritiesEnum}
ProjInputs == ProjIds \cup {SeedProject, BadId}
UserInputs == Users \cup {BadId}
\* the users who send the requests (removeMember: any user) and the users a
\* request names as its target
Actors == {"u1", "u2"}
Targets == {"u1", "u2"}
\* a well-formed project id that no document carries
MissingProject == "p9"
LookupFailures == {"none", "findById", "findOne"}
Failures == LookupFailures \cup {"store"}

(***************************************************************************)
(* The store: four collections of documents.                               *)
(***************************************************************************)
NoAssignee == "(none)"
\* a dueDate of null: the task has no due date
NoDate == "(no date)"
\* the JavaScript value undefined: a property that is not there
Undefined == "undefined"
\* the JavaScript value null
JsNull == "(null)"
EpochDate == "1970-01-01"
InvalidDate == "Invalid Date"

EmptyDb == [projects |-> {}, members |-> {}, tasks |-> {}, notes |-> {}]
SeedDb ==
  [projects |-> {[id |-> SeedProject, name |-> "Alpha", description |-> "Plan",
                   createdBy |-> "u1"]},
   members  |-> {[id |-> 0, project |-> SeedProject, users |-> "u1", role |-> UserRolesEnum.ADMIN]},
   tasks    |-> {[id |-> 0, project |-> SeedProject, assignedBy |-> "u1",
                  assignedTo |-> NoAssignee, title |-> "Report", description |-> "",
                  status |-> "todo", priority |-> "medium", dueDate |-> "2031-05-05",
                  createdAt |-> 1]},
   notes    |-> {[id |-> "n1", project |-> SeedProject, createdBy |-> "u1",
                  content |-> "draft"]}]
InitStores == {EmptyDb, SeedDb}

\* String.prototype.toLowerCase on the strings the model enumerates
toLowerCase(str) ==
  CASE str = "TODO" -> "todo"
    [] str = "HIGH" -> "high"
    [] str = "DONE" -> "done"
    [] str = "ASC"  -> "asc"
    [] str = "ADMIN" -> "admin"
    [] str = "Member" -> "member"
    [] str = "U2" -> "u2"
    [] OTHER -> str

NoRowRec == [id |-> NoRow, project |-> "", users |-> "", role |-> ""]

\* mongoose.Types.ObjectId.isValid
isValid(id) == id # BadId

\* Project.findById(id): the set holding the project document, or empty
findById(d, id) == {p \in d.projects : p.id = id}

\* the unique index on Project.name
NameTaken_NoIndex(d, name) == FALSE

NameTaken(d, name) == \E p \in d.projects : p.name = name

\* ProjectMember.findOne({project, users}): the first matching document in
\* insertion order, or no document
findOne(d, projectId, userId) ==
  LET S == {m \in d.members : m.project = projectId /\ m.users = userId}
  IN  IF S = {} THEN NoRowRec
      ELSE CHOOSE r \in S : \A q \in S : r.id <= q.id

(***************************************************************************)
(* Role and permission resolver, project controller copy.  A result is     *)
(* the JavaScript value the function resolves to: "true", "false" or       *)
(* "null"; "throw" is a rejected promise.                                  *)
(***************************************************************************)
isProjectMember_CreatorOnly(d, projectId, userId, fail) ==
  IF ~isValid(projectId) \/ ~isValid(userId) THEN "false"
  ELSE IF fail = "findById" THEN "false"
  ELSE IF findById(d, projectId) = {} THEN "false"
  ELSE IF (CHOOSE p \in findById(d, projectId) : TRUE).createdBy = userId THEN "true"
  ELSE "false"

\* the id check and the first read of isProjectMember: the value it returns
\* there, or "more" when it goes on to read the membership row
isProjectMember_creator(d, projectId, userId, fail) ==
  IF ~isValid(projectId) \/ ~isValid(userId) THEN "false"
  ELSE IF fail = "findById" THEN "false"
  ELSE LET project == findById(d, projectId)
       IN  IF project = {} THEN "false"
           ELSE IF \E p \in project : p.createdBy = userId THEN "true"
           ELSE "more"

\* the second read of isProjectMember: !!member
isProjectMember_row(d, projectId, userId, fail) ==
  IF fail = "findOne" THEN "false"
  ELSE IF findOne(d, projectId, userId).id # NoRow THEN "true" ELSE "false"

\* isProjectMember with both reads on the same store d
isProjectMember(d, projectId, userId, fail) ==
  LET first == isProjectMember_creator(d, projectId, userId, fail)
  IN  IF first # "more" THEN first
      ELSE isProjectMember_row(d, projectId, userId, fail)

isProjectAdmin_AnyAdminRole(d, projectId, userId, fail) ==
  IF ~isValid(projectId) \/ ~isValid(userId) THEN "false"
  ELSE IF fail = "findById" THEN "false"
  ELSE IF findById(d, projectId) = {} THEN "false"
  ELSE IF (CHOOSE p \in findById(d, projectId) : TRUE).createdBy = userId THEN "true"
  ELSE IF fail = "findOne" THEN "false"
  ELSE LET member == findOne(d, projectId, userId)
       IN  IF member.id = NoRow THEN "null"
           ELSE IF member.role \in {UserRolesEnum.ADMIN, UserRolesEnum.PROJECT_ADMIN}
                THEN "true" ELSE "false"

isProjectAdmin_RowOnly(d, projectId, userId, fail) ==
  IF ~isValid(projectId) \/ ~isValid(userId) THEN "false"
  ELSE IF fail = "findById" THEN "false"
  ELSE IF findById(d, projectId) = {} THEN "false"
  ELSE IF fail = "findOne" THEN "false"
  ELSE LET member == findOne(d, projectId, userId)
       IN  IF member.id = NoRow THEN "null"
           ELSE IF member.role = UserRolesEnum.ADMIN THEN "true" ELSE "false"

\* the id check and the first read of isProjectAdmin: the value it returns
\* there, or "more" when it goes on to read the membership row
isProjectAdmin_creator(d, projectId, userId, fail) ==
  IF ~isValid(projectId) \/ ~isValid(userId) THEN "false"
  ELSE IF fail = "findById" THEN "false"
  ELSE LET project == findById(d, projectId)
       IN  IF project = {} THEN "false"
           ELSE IF \E p \in project : p.createdBy = userId THEN "true"
           ELSE "more"

\* the second read of isProjectAdmin: member && member.role === ADMIN
isProjectAdmin_role(d, projectId, userId, fail) ==
  IF fail = "findOne" THEN "false"
  ELSE LET member == findOne(d, projectId, userId)
       IN  IF member.id = NoRow THEN "null"
           ELSE IF member.role = UserRolesEnum.ADMIN THEN "true" ELSE "false"

\* isProjectAdmin with both reads on the same store d
isProjectAdmin(d, projectId, userId, fail) ==
  LET first == isProjectAdmin_creator(d, projectId, userId, fail)
  IN  IF first # "more" THEN first
      ELSE isProjectAdmin_role(d, projectId, userId, fail)

\* JavaScript truthiness of a resolver result, as used by `if (!x)`
Truthy(x) == x = "true"

(***************************************************************************)
(* Shared helper copy (utils/helper).  The module binds only Project and   *)
(* ProjectMember; `mongoose` and `UserRolesEnum` are free identifiers, so  *)
(* evaluating them raises a ReferenceError.                                *)
(***************************************************************************)
HelperBindings == {"Project", "ProjectMember"}

helper_isProjectMember(d, projectId, userId, fail) ==
  IF "mongoose" \notin HelperBindings THEN "throw"
  ELSE isProjectMember(d, projectId, userId, fail)

helper_isProjectAdmin(d, projectId, userId, fail) ==
  IF "mongoose" \notin HelperBindings THEN "throw"
  ELSE IF ~isValid(projectId) \/ ~isValid(userId) THEN "false"
  ELSE IF fail = "findById" THEN "false"
  ELSE IF findById(d, projectId) = {} THEN "false"
  ELSE IF (CHOOSE p \in findById(d, projectId) : TRUE).createdBy = userId THEN "true"
  ELSE IF fail = "findOne" THEN "false"
  ELSE IF findOne(d, projectId, userId).id = NoRow THEN "null"
  ELSE IF "UserRolesEnum" \notin HelperBindings THEN "false"
  ELSE isProjectAdmin(d, projectId, userId, fail)

(***************************************************************************)
(* State.                                                                  *)
(*   db       the committed documents, as every read without a session     *)
(*            sees them                                                    *)
(*   txn      per slot, the transaction of the request in that slot: its   *)
(*            snapshot and the writes staged under its session             *)
(*   req      per slot, the request in flight and its position             *)
(*   out      the request that has just finished, with the response        *)
(*            delivered (resp = 0: no response was sent), until the        *)
(*            caller takes it                                              *)
(*   nextP, nextM   generators of fresh document ids                       *)
(*   started  number of requests accepted so far                           *)
(* A request is accepted together with its validation and its first        *)
(* awaited call: accepting it earlier has no effect any other request can  *)
(* see.                                                                    *)
(***************************************************************************)
VARIABLES db, txn, req, out, nextP, nextM, started

vars == <<db, txn, req, out, nextP, nextM, started>>

Idle ==
  [op |-> "none", actor |-> "", pid |-> "", target |-> "", role |-> "",
   pc |-> "idle", resp |-> 0, err |-> "none", mrow |-> NoRow, sess |-> "none",
   fail |-> "none", due |-> Undefined, prio |-> Undefined, seen |-> "",
   desc |-> Undefined, status |-> Undefined]

NoTxn ==
  [state |-> "none", snap |-> EmptyDb,
   insP |-> {}, insM |-> {}, delP |-> {}, delM |-> {}, delT |-> {}]

CreatorRowId(i) == i
AddedRowId(k) == 10 + k

\* String.prototype.trim on the strings the model enumerates
Trim(name) == IF name \in {"", "  "} THEN "" ELSE name
\* the names a request sends: the names of the model, an empty and a blank
\* one, one of two and one of thirteen characters
NameInputs == Names \cup {"", "  ", "ab", "Alphabet-Soup"}

(***************************************************************************)
(* Route validators: the express-validator chains that the routes of       *)
(* createProject, updateProject, createTask, updateTask, createNote and    *)
(* updateNote run before the handler, and the validate middleware after    *)
(* them.  A chain works on the string of the body value: a value that is   *)
(* not sent, or null, is the empty string.                                 *)
(***************************************************************************)
\* body(field).trim(): the string the rest of the chain works on
bodyString(value) ==
  IF value \in {Undefined, JsNull, NoAssignee} THEN "" ELSE Trim(value)

\* body("description").trim(): the values the handler can read from
\* req.body.description.  An express-validator that writes the sanitized
\* string back to the request turns a description that was not sent into "";
\* one that sanitizes strings only leaves it undefined.  The sources do not
\* say which is installed.
sanitized(value) == IF value = Undefined THEN {Undefined, ""} ELSE {Trim(value)}

\* .isLength({ min }) and .isLength({ max })
isLength(str, min, max) == Len(str) >= min /\ Len(str) <= max

\* .isDate(): a date written YYYY-MM-DD
isDate(str) == str \in {"2030-01-01", "2031-05-05", EpochDate}

\* .isMongoId(): 24 hexadecimal digits
isMongoId(str) == str # "" /\ isValid(str)

\* content: not empty, at most 1000 characters
noteValidator(content) ==
  bodyString(content) # "" /\ isLength(bodyString(content), 1, 1000)

\* name: not empty, 3 to 12 characters; the chain of description passes for
\* every description of at most 300 characters and for none
projectValidator(name) ==
  bodyString(name) # "" /\ isLength(bodyString(name), 3, 12)

\* title: not empty, 3 to 23 characters; dueDate: a date; priority: low,
\* medium or high; assignedTo: an object id.  None of them may be left out.
createTaskValidator(body) ==
  /\ bodyString(body.title) # ""
  /\ isLength(bodyString(body.title), 3, 23)
  /\ isDate(bodyString(body.dueDate))
  /\ bodyString(body.priority) \in AvailableTaskPriorities
  /\ isMongoId(bodyString(body.assignedTo))

\* validate: when a chain reported an error, throw ApiError(422); the
\* handler is not called
validate(passed) == IF passed THEN "none" ELSE "422"

\* connectDB().then(listen): the server starts on a database that is empty or
\* already holds documents
Init ==
  /\ db \in InitStores
  /\ txn = [s \in Slots |-> NoTxn]
  /\ req = [s \in Slots |-> Idle]
  /\ out = Idle
  /\ nextP = 1
  /\ nextM = 1
  /\ started = 0

(***************************************************************************)
(* Transactions (mongoose session + MongoDB multi-document transaction).   *)
(***************************************************************************)
\* session.commitTransaction(): the staged writes become visible at once
Apply_NoteCascade(d, t) ==
  [projects |-> {p \in d.projects : p.id \notin t.delP} \cup t.insP,
   members  |-> {m \in d.members : m.id \notin t.delM} \cup t.insM,
   tasks    |-> {k \in d.tasks : k.id \notin t.delT},
   notes    |-> {n \in d.notes : n.project \notin t.delP}]

Apply(d, t) ==
  [projects |-> {p \in d.projects : p.id \notin t.delP} \cup t.insP,
   members  |-> {m \in d.members : m.id \notin t.delM} \cup t.insM,
   tasks    |-> {k \in d.tasks : k.id \notin t.delT},
   notes    |-> d.notes]

\* documents another open transaction holds a write lock on
OtherStagedNames(s) == {p.name : p \in UNION {txn[t].insP : t \in Slots \ {s}}}
OtherDelP(s) == UNION {txn[t].delP : t \in Slots \ {s}}
OtherDelM(s) == UNION {txn[t].delM : t \in Slots \ {s}}
OtherDelT(s) == UNION {txn[t].delT : t \in Slots \ {s}}

\* the request r ends where it stands, with status `code` (0: no response),
\* its session in state ss, and error e: the first error raised, or the
\* error of the catch block's own call when that is what leaves the handler
Done(r, code, e, ss) == [r EXCEPT !.resp = code, !.err = e, !.sess = ss]

\* the same for a request in which call f rejected
DoneAt(r, code, e, ss, f) == [Done(r, code, e, ss) EXCEPT !.fail = f]

\* the request in slot s ends and the slot is free again
Finish(s, code, e, ss) ==
  /\ req' = [req EXCEPT ![s] = Idle]
  /\ out' = Done(req[s], code, e, ss)

(***************************************************************************)
(* Requests.  A request is accepted together with its validation and its   *)
(* first awaited store call; every later awaited call is a step of its     *)
(* own, and the steps of the two slots interleave.  Any store call that    *)
(* goes to the database can reject.                                        *)
(***************************************************************************)
\* the request r is answered in the step that accepts it; f names the call
\* that rejected, if one did
Reject(r, code, e, f) ==
  /\ req' = req
  /\ out' = DoneAt(r, code, e, "none", f)

\* the request r goes on from the step that accepts it
Proceed(s, r) ==
  /\ req' = [req EXCEPT ![s] = r]
  /\ out' = out

\* the request in slot s goes on at position pc
Goto(s, pc) ==
  /\ req' = [req EXCEPT ![s].pc = pc]
  /\ out' = out

\* the request in slot s enters a catch block with error e, raised by a
\* rejected store call when f = "store"
Caught(s, pc, e, f) ==
  /\ req' = [req EXCEPT ![s].pc = pc, ![s].err = e, ![s].fail = f]
  /\ out' = out

\* the name of the call that rejected, for an error e of a store call
FailedCall(e) == IF e = "StoreFailure" THEN "store" ELSE "none"

\* a request arrives at a free slot; slot "b" serves only while "a" is busy
Accept(s) ==
  /\ out = Idle
  /\ req[s].pc = "idle"
  /\ s = "b" => req["a"].pc # "idle"
  /\ started < MaxRequests
  /\ started' = started + 1

\* the requests in the other slots that have still to draw a fresh id
Pending(s, op, pcs) ==
  Cardinality({t \in Slots \ {s} : req[t].op = op /\ req[t].pc \in pcs})

\* the project ids a request names: every id the store mentions, and one
\* well-formed id that no document carries
ProjectParams(d) ==
  {p.id : p \in d.projects} \cup {m.project : m \in d.members}
    \cup {k.project : k \in d.tasks} \cup {n.project : n \in d.notes}
    \cup {MissingProject}

(***************************************************************************)
(* isProjectAdmin as the handlers of the project controller await it: its  *)
(* two reads are two steps; a falsy result makes the caller throw          *)
(* ApiError(403), which the caller's catch block replaces by a 500.        *)
(***************************************************************************)
\* if (!hasAdminAccess) throw new ApiError(403, ...)
AdminGate_UpdateRoleOpen(op, result) ==
  IF op = "updateMemberRole" \/ Truthy(result) THEN "none" ELSE "403"

AdminGate_UpdateProjectOpen(op, result) ==
  IF op = "updateProject" \/ Truthy(result) THEN "none" ELSE "403"

AdminGate(op, result) == IF Truthy(result) THEN "none" ELSE "403"

\* where the caller goes on when isProjectAdmin resolved to a truthy value
AfterAdmin(op) ==
  CASE op = "deleteProject" -> "dp_session"
    [] op = "updateProject" -> "up_write"
    [] op = "addMember" -> "am_user"
    [] op = "updateMemberRole" -> "ur_save"

\* isProjectAdmin resolved to `result`, lookup f having failed
AdminResolved(s, result, f) ==
  IF AdminGate(req[s].op, result) = "none"
  THEN Goto(s, AfterAdmin(req[s].op))
  ELSE /\ req' = [req EXCEPT ![s] = Idle]
       /\ out' = DoneAt(req[s], 500, AdminGate(req[s].op, result), req[s].sess, f)

\* Project.findById(projectId).select("createdBy") inside isProjectAdmin
isProjectAdmin_findById(s) ==
  /\ req[s].pc = "admin_findById"
  /\ \E f \in {"none", "findById"} :
       LET result == isProjectAdmin_creator(db, req[s].pid, req[s].actor, f)
       IN  IF result = "more" THEN Goto(s, "admin_findOne")
           ELSE AdminResolved(s, result, f)
  /\ UNCHANGED <<db, txn, nextP, nextM, started>>

\* ProjectMember.findOne({project, users}).select("role") inside
\* isProjectAdmin
isProjectAdmin_findOne(s) ==
  /\ req[s].pc = "admin_findOne"
  /\ \E f \in {"none", "findOne"} :
       AdminResolved(s, isProjectAdmin_role(db, req[s].pid, req[s].actor, f), f)
  /\ UNCHANGED <<db, txn, nextP, nextM, started>>

(***************************************************************************)
(* createProject                                                           *)
(***************************************************************************)
\* Project.create([projectData], { session })
StageProject_NoSession(d, t, doc) ==
  [db |-> [d EXCEPT !.projects = @ \cup {doc}], tx |-> t]

StageProject(d, t, doc) ==
  [db |-> d, tx |-> [t EXCEPT !.insP = @ \cup {doc}]]

\* ProjectMember.create([{users, project, role: ADMIN}], { session })
StageCreatorMember_NoSession(d, t, doc) ==
  [db |-> [d EXCEPT !.members = @ \cup {doc}], tx |-> t]

StageCreatorMember(d, t, doc) ==
  [db |-> d, tx |-> [t EXCEPT !.insM = @ \cup {doc}]]

\* the status the catch block throws: error.code === 11000 is the duplicate
\* key error of the unique index on Project.name
createProjectCatchStatus_Always500(e) == 500

createProjectCatchStatus(e) == IF e = "11000" THEN 400 ELSE 500

\* projectData: { name, description: description || "", createdBy }
projectData(id, name, description, actor) ==
  [id |-> id, name |-> name,
   description |-> IF description \in {Undefined, ""} THEN "" ELSE description,
   createdBy |-> actor]

\* the bodies of the createProject requests
createProjectInputs ==
  {[actor |-> "u1", name |-> name, description |-> Undefined] : name \in NameInputs}
    \cup {[actor |-> "u2", name |-> "Alpha", description |-> Undefined],
          [actor |-> "u2", name |-> "Beta", description |-> "Notes"]}

\* the route's validator, the handler's validation, then
\* mongoose.startSession(), which is awaited outside the try block: when it rejects no session exists, the catch block does not
\* run and the error goes out as it is
createProject(s) ==
  /\ Accept(s)
  /\ nextP + Pending(s, "createProject", {"cp_create"}) <= MaxProjects
  /\ \E in \in createProjectInputs, fail \in BOOLEAN :
     \E description \in sanitized(in.description) :
       LET r == [Idle EXCEPT !.op = "createProject", !.actor = in.actor,
                             !.target = in.name,
                             !.desc = projectData("", in.name, description,
                                                  in.actor).description]
       IN  IF validate(projectValidator(in.name)) # "none"
           THEN Reject(r, 422, "422", "none")
           ELSE IF Trim(in.name) = "" THEN Reject(r, 400, "400", "none")
           ELSE IF fail THEN Reject(r, 500, "StoreFailure", "store")
           ELSE Proceed(s, [r EXCEPT !.pc = "cp_create", !.sess = "open"])
  /\ UNCHANGED <<db, txn, nextP, nextM>>

\* session.startTransaction(), Project.create([projectData], { session })
createProject_create(s) ==
  /\ req[s].pc = "cp_create"
  /\ \E fail \in BOOLEAN :
       LET name == req[s].target
           e == IF fail THEN "StoreFailure"
                ELSE IF NameTaken(db, name) THEN "11000"
                ELSE IF name \in OtherStagedNames(s) THEN "WriteConflict"
                ELSE "none"
           doc == projectData(ProjIdSeq[nextP], name, req[s].desc, req[s].actor)
           w == StageProject(db, [NoTxn EXCEPT !.state = "active"], doc)
       IN  IF e # "none"
           THEN /\ Caught(s, "cp_abort", e, FailedCall(e))
                /\ txn' = [txn EXCEPT ![s] = [NoTxn EXCEPT !.state = "active"]]
                /\ UNCHANGED <<db, nextP>>
           ELSE /\ req' = [req EXCEPT ![s].pc = "cp_member", ![s].pid = doc.id,
                                      ![s].mrow = CreatorRowId(nextP)]
                /\ out' = out
                /\ db' = w.db
                /\ txn' = [txn EXCEPT ![s] = w.tx]
                /\ nextP' = nextP + 1
  /\ UNCHANGED <<nextM, started>>

createProject_member(s) ==
  /\ req[s].pc = "cp_member"
  /\ \E fail \in BOOLEAN :
       LET doc == [id |-> req[s].mrow, project |-> req[s].pid,
                   users |-> req[s].actor, role |-> UserRolesEnum.ADMIN]
           w == StageCreatorMember(db, txn[s], doc)
       IN  IF fail
           THEN Caught(s, "cp_abort", "StoreFailure", "store") /\ UNCHANGED <<db, txn>>
           ELSE /\ db' = w.db
                /\ txn' = [txn EXCEPT ![s] = w.tx]
                /\ Goto(s, "cp_read")
  /\ UNCHANGED <<nextP, nextM, started>>

\* Project.findById(project._id).populate(...).session(session)
createProject_read(s) ==
  /\ req[s].pc = "cp_read"
  /\ \E fail \in BOOLEAN :
       IF fail THEN Caught(s, "cp_abort", "StoreFailure", "store")
       ELSE Goto(s, "cp_commit")
  /\ UNCHANGED <<db, txn, nextP, nextM, started>>

\* session.commitTransaction(): the staged writes become visible at once; a
\* commit that rejects leaves the store as it was and the session in the
\* state "commit was called"
createProject_commit(s) ==
  /\ req[s].pc = "cp_commit"
  /\ \E fail \in BOOLEAN :
       IF fail
       THEN /\ req' = [req EXCEPT ![s].pc = "cp_abort", ![s].err = "StoreFailure",
                                  ![s].fail = "store", ![s].sess = "commit"]
            /\ out' = out
            /\ db' = db
       ELSE /\ db' = Apply(db, txn[s])
            /\ Goto(s, "cp_end")
  /\ txn' = [txn EXCEPT ![s] = NoTxn]
  /\ UNCHANGED <<nextP, nextM, started>>

\* session.endSession() after the commit, then res.status(201)
createProject_end(s) ==
  /\ req[s].pc = "cp_end"
  /\ Finish(s, 201, "none", "ended")
  /\ UNCHANGED <<db, txn, nextP, nextM, started>>

\* the catch block, first call: session.abortTransaction().  After
\* commitTransaction was called the driver rejects it; that error leaves
\* the handler as it is (a 500), and endSession and both throws are skipped.
createProject_abort(s) ==
  /\ req[s].pc = "cp_abort"
  /\ IF req[s].sess = "commit"
     THEN Finish(s, 500, "MongoTransactionError", "open") /\ txn' = txn
     ELSE Goto(s, "cp_abort_end") /\ txn' = [txn EXCEPT ![s] = NoTxn]
  /\ UNCHANGED <<db, nextP, nextM, started>>

\* the catch block, second call: session.endSession(), then throw 400 on a
\* duplicate key and 500 otherwise
createProject_abort_end(s) ==
  /\ req[s].pc = "cp_abort_end"
  /\ Finish(s, createProjectCatchStatus(req[s].err), req[s].err, "ended")
  /\ UNCHANGED <<db, txn, nextP, nextM, started>>

(***************************************************************************)
(* deleteProject                                                           *)
(***************************************************************************)
\* Project.findByIdAndDelete(projectId, { session })
StageDeleteProject(d, t, projectId) ==
  [db |-> d,
   tx |-> [t EXCEPT !.delP = @ \cup {p.id : p \in findById(t.snap, projectId)}]]

\* ProjectMember.deleteMany({ project: projectId }, { session })
StageDeleteMembers(d, t, projectId) ==
  [db |-> d,
   tx |-> [t EXCEPT !.delM = @ \cup {m.id : m \in {x \in t.snap.members : x.project = projectId}}]]

\* Task.deleteMany({ project: projectId }, { session })
StageDeleteTasks(d, t, projectId) ==
  [db |-> d,
   tx |-> [t EXCEPT !.delT = @ \cup {k.id : k \in {x \in t.snap.tasks : x.project = projectId}}]]

deleteProjectInputs(d) ==
  {[actor |-> actor, pid |-> pid] : actor \in Actors, pid \in ProjectParams(d)}
    \cup {[actor |-> "u1", pid |-> BadId]}

\* validation, Project.findById; an ApiError thrown inside the try block is
\* caught by the outer catch and replaced by a 500
deleteProject(s) ==
  /\ Accept(s)
  /\ \E in \in deleteProjectInputs(db), fail \in BOOLEAN :
       LET r == [Idle EXCEPT !.op = "deleteProject", !.actor = in.actor, !.pid = in.pid]
       IN  IF ~isValid(in.pid) THEN Reject(r, 400, "400", "none")
           ELSE IF fail THEN Reject(r, 500, "StoreFailure", "store")
           ELSE IF findById(db, in.pid) = {} THEN Reject(r, 500, "404", "none")
           ELSE Proceed(s, [r EXCEPT !.pc = "admin_findById"])
  /\ UNCHANGED <<db, txn, nextP, nextM>>

\* mongoose.startSession(), session.startTransaction()
deleteProject_session(s) ==
  /\ req[s].pc = "dp_session"
  /\ \E fail \in BOOLEAN :
       IF fail
       THEN /\ req' = [req EXCEPT ![s] = Idle]
            /\ out' = DoneAt(req[s], 500, "StoreFailure", "none", "store")
            /\ txn' = txn
       ELSE /\ req' = [req EXCEPT ![s].pc = "dp_delP", ![s].sess = "open"]
            /\ out' = out
            /\ txn' = [txn EXCEPT ![s] = [NoTxn EXCEPT !.state = "active"]]
  /\ UNCHANGED <<db, nextP, nextM, started>>

\* first operation of the transaction: its snapshot is the committed state
deleteProject_project(s) ==
  /\ req[s].pc = "dp_delP"
  /\ \E fail \in BOOLEAN :
       LET e == IF fail THEN "StoreFailure"
                ELSE IF req[s].pid \in OtherDelP(s) THEN "WriteConflict"
                ELSE "none"
           w == StageDeleteProject(db, [txn[s] EXCEPT !.snap = db], req[s].pid)
       IN  IF e # "none"
           THEN Caught(s, "dp_abort", e, FailedCall(e)) /\ UNCHANGED <<db, txn>>
           ELSE /\ db' = w.db
                /\ txn' = [txn EXCEPT ![s] = w.tx]
                /\ Goto(s, "dp_delM")
  /\ UNCHANGED <<nextP, nextM, started>>

deleteProject_members(s) ==
  /\ req[s].pc = "dp_delM"
  /\ \E fail \in BOOLEAN :
       LET rows == {m \in txn[s].snap.members : m.project = req[s].pid}
           e == IF fail THEN "StoreFailure"
                ELSE IF ~(rows \subseteq db.members) \/ {m.id : m \in rows} \cap OtherDelM(s) # {}
                     THEN "WriteConflict"
                ELSE "none"
           w == StageDeleteMembers(db, txn[s], req[s].pid)
       IN  IF e # "none"
           THEN Caught(s, "dp_abort", e, FailedCall(e)) /\ UNCHANGED <<db, txn>>
           ELSE /\ db' = w.db
                /\ txn' = [txn EXCEPT ![s] = w.tx]
                /\ Goto(s, "dp_delT")
  /\ UNCHANGED <<nextP, nextM, started>>

deleteProject_tasks(s) ==
  /\ req[s].pc = "dp_delT"
  /\ \E fail \in BOOLEAN :
       LET rows == {k \in txn[s].snap.tasks : k.project = req[s].pid}
           e == IF fail THEN "StoreFailure"
                ELSE IF ~(rows \subseteq db.tasks) \/ {k.id : k \in rows} \cap OtherDelT(s) # {}
                     THEN "WriteConflict"
                ELSE "none"
           w == StageDeleteTasks(db, txn[s], req[s].pid)
       IN  IF e # "none"
           THEN Caught(s, "dp_abort", e, FailedCall(e)) /\ UNCHANGED <<db, txn>>
           ELSE /\ db' = w.db
                /\ txn' = [txn EXCEPT ![s] = w.tx]
                /\ Goto(s, "dp_commit")
  /\ UNCHANGED <<nextP, nextM, started>>

\* session.commitTransaction(), res.status(200); endSession is not called
\* on this path.  A commit that rejects leaves the store as it was and the
\* session in the state "commit was called".
deleteProject_commit(s) ==
  /\ req[s].pc = "dp_commit"
  /\ \E fail \in BOOLEAN :
       IF fail
       THEN /\ req' = [req EXCEPT ![s].pc = "dp_abort", ![s].err = "StoreFailure",
                                  ![s].fail = "store", ![s].sess = "commit"]
            /\ out' = out
            /\ db' = db
       ELSE /\ db' = Apply(db, txn[s])
            /\ Finish(s, 200, "none", "open")
  /\ txn' = [txn EXCEPT ![s] = NoTxn]
  /\ UNCHANGED <<nextP, nextM, started>>

\* the inner catch block: await session.abortTransaction(), then
\* session.endSession() without await and a log line; nothing is rethrown
\* and no response is sent.  After commitTransaction was called the driver
\* rejects abortTransaction: that error reaches the outer catch, which
\* throws ApiError(500), and endSession is skipped.
deleteProject_abort(s) ==
  /\ req[s].pc = "dp_abort"
  /\ IF req[s].sess = "commit"
     THEN Finish(s, 500, "MongoTransactionError", "open") /\ txn' = txn
     ELSE Finish(s, 0, req[s].err, "ended") /\ txn' = [txn EXCEPT ![s] = NoTxn]
  /\ UNCHANGED <<db, nextP, nextM, started>>

(***************************************************************************)
(* addMemberToProject                                                      *)
(***************************************************************************)
\* role ? role.toLowerCase() : UserRolesEnum.MEMBER
memberRoleInput(role) ==
  IF role # NoRole THEN toLowerCase(role) ELSE UserRolesEnum.MEMBER

\* the guard of the role validation: role && AvailableUserRoles.includes(...)
RoleRejected(role) == role # NoRole /\ memberRoleInput(role) \in AvailableUserRoles

\* AvailableUserRoles.includes(memberRoleInput) ? memberRoleInput : MEMBER
memberRole(role) ==
  IF memberRoleInput(role) \in AvailableUserRoles THEN memberRoleInput(role)
  ELSE UserRolesEnum.MEMBER

\* User.findOne({ email: email.toLowerCase() }): the user's id, or no user
findUser(email) ==
  IF toLowerCase(email) \in Users THEN toLowerCase(email) ELSE NoSuchEmail

addMemberInputs(d) ==
  {[actor |-> actor, pid |-> pid, email |-> email, role |-> NoRole] :
     actor \in Actors, pid \in ProjectParams(d), email \in Targets}
    \cup {[actor |-> "u1", pid |-> SeedProject, email |-> NoSuchEmail, role |-> NoRole]}
    \cup {[actor |-> "u1", pid |-> SeedProject, email |-> "u2", role |-> role] :
            role \in RoleInputs \ {NoRole}}
    \cup {[actor |-> "u1", pid |-> SeedProject, email |-> email, role |-> NoRole] :
            email \in {"", "U2"}}
    \cup {[actor |-> "u1", pid |-> BadId, email |-> "u2", role |-> NoRole]}

\* validation, Project.findById
addMemberToProject(s) ==
  /\ Accept(s)
  /\ nextM + Pending(s, "addMember", {"admin_findById", "admin_findOne", "am_user",
                                       "am_existing", "am_create"}) <= MaxMemberRows
  /\ \E in \in addMemberInputs(db), fail \in BOOLEAN :
       LET r == [Idle EXCEPT !.op = "addMember", !.actor = in.actor, !.pid = in.pid,
                             !.target = in.email, !.role = in.role]
       IN  IF ~isValid(in.pid) \/ in.email = "" \/ RoleRejected(in.role)
           THEN Reject(r, 400, "400", "none")
           ELSE IF fail THEN Reject(r, 500, "StoreFailure", "store")
           ELSE IF findById(db, in.pid) = {} THEN Reject(r, 500, "404", "none")
           ELSE Proceed(s, [r EXCEPT !.pc = "admin_findById"])
  /\ UNCHANGED <<db, txn, nextP, nextM>>

\* User.findOne({ email: email.toLowerCase() })
addMemberToProject_user(s) ==
  /\ req[s].pc = "am_user"
  /\ \E fail \in BOOLEAN :
       LET e == IF fail THEN "StoreFailure"
                ELSE IF findUser(req[s].target) = NoSuchEmail THEN "404"
                ELSE "none"
       IN  IF e # "none"
           THEN /\ req' = [req EXCEPT ![s] = Idle]
                /\ out' = DoneAt(req[s], 500, e, "none", FailedCall(e))
           ELSE /\ req' = [req EXCEPT ![s].pc = "am_existing",
                                      ![s].seen = findUser(req[s].target)]
                /\ out' = out
  /\ UNCHANGED <<db, txn, nextP, nextM, started>>

\* ProjectMember.findOne({ project, users: userToAdd._id }); "409": the
\* ApiError(400) thrown for a user who is a member already
addMemberToProject_existing(s) ==
  /\ req[s].pc = "am_existing"
  /\ \E fail \in BOOLEAN :
       LET e == IF fail THEN "StoreFailure"
                ELSE IF findOne(db, req[s].pid, req[s].seen).id # NoRow THEN "409"
                ELSE "none"
       IN  IF e # "none"
           THEN /\ req' = [req EXCEPT ![s] = Idle]
                /\ out' = DoneAt(req[s], 500, e, "none", FailedCall(e))
           ELSE Goto(s, "am_create")
  /\ UNCHANGED <<db, txn, nextP, nextM, started>>

\* ProjectMember.create without a session, then the populate chain, which
\* raises a TypeError that the catch block turns into a 500
addMemberToProject_create(s) ==
  /\ req[s].pc = "am_create"
  /\ \E fail \in BOOLEAN :
       IF fail
       THEN /\ req' = [req EXCEPT ![s] = Idle]
            /\ out' = DoneAt(req[s], 500, "StoreFailure", "none", "store")
            /\ UNCHANGED <<db, nextM>>
       ELSE /\ db' = [db EXCEPT !.members = @ \cup
                       {[id |-> AddedRowId(nextM), project |-> req[s].pid,
                         users |-> req[s].seen, role |-> memberRole(req[s].role)]}]
            /\ nextM' = nextM + 1
            /\ Finish(s, 500, "TypeError", "none")
  /\ UNCHANGED <<txn, nextP, started>>

(***************************************************************************)
(* removeMemberFromProject                                                 *)
(***************************************************************************)
\* .select("user").lean(): the projection names a path the schema does not
\* have, so the document read carries _id only
memberToRemoveProjection_users(row) == [id |-> row.id, users |-> row.users]

memberToRemoveProjection(row) == [id |-> row.id, users |-> Undefined]

removeMemberInputs(d) ==
  {[actor |-> actor, pid |-> pid, memberId |-> memberId] :
     actor \in Actors, pid \in ProjectParams(d), memberId \in Targets}
    \cup {[actor |-> "u3", pid |-> SeedProject, memberId |-> "u2"],
          [actor |-> "u1", pid |-> BadId, memberId |-> "u2"],
          [actor |-> "u1", pid |-> SeedProject, memberId |-> BadId]}

\* validation, Project.findById(projectId).select("createdBy")
removeMemberFromProject(s) ==
  /\ Accept(s)
  /\ \E in \in removeMemberInputs(db), fail \in BOOLEAN :
       LET r == [Idle EXCEPT !.op = "removeMember", !.actor = in.actor, !.pid = in.pid,
                             !.target = in.memberId]
       IN  IF ~isValid(in.pid) \/ ~isValid(in.memberId) THEN Reject(r, 400, "400", "none")
           ELSE IF fail THEN Reject(r, 500, "StoreFailure", "store")
           ELSE IF findById(db, in.pid) = {} THEN Reject(r, 500, "404", "none")
           ELSE Proceed(s, [r EXCEPT !.pc = "rm_member",
                                     !.seen = (CHOOSE p \in findById(db, in.pid) : TRUE).createdBy])
  /\ UNCHANGED <<db, txn, nextP, nextM>>

\* ProjectMember.findOne(...).select("user"), the creator guard ("409") on
\* the project read before, reading memberToRemove.users: the first error
\* raised
removeMemberChecks(d, createdBy, projectId, memberId, fail) ==
  IF fail THEN "StoreFailure"
  ELSE IF findOne(d, projectId, memberId).id = NoRow THEN "404"
  ELSE IF createdBy = memberId THEN "409"
  ELSE IF memberToRemoveProjection(findOne(d, projectId, memberId)).users = Undefined
       THEN "TypeError"
  ELSE "none"

\* the rest of the handler: the checks, then selfRemoval and isAdmin (both
\* computed, neither consulted) and findByIdAndDelete, which the TypeError
\* keeps the handler from reaching
removeMemberFromProject_member(s) ==
  /\ req[s].pc = "rm_member"
  /\ \E fail \in BOOLEAN :
       LET memberToRemove ==
             memberToRemoveProjection(findOne(db, req[s].pid, req[s].target))
           e == removeMemberChecks(db, req[s].seen, req[s].pid, req[s].target, fail)
           selfRemoval == memberToRemove.users = req[s].actor
           isAdmin == isProjectAdmin(db, req[s].pid, req[s].actor, "none")
       IN  IF e # "none"
           THEN /\ req' = [req EXCEPT ![s] = Idle]
                /\ out' = DoneAt(req[s], 500, e, "none", FailedCall(e))
                /\ db' = db
           ELSE /\ db' = [db EXCEPT !.members = {m \in @ : m.id # memberToRemove.id}]
                /\ Finish(s, 200, "none", "none")
  /\ UNCHANGED <<txn, nextP, nextM, started>>

(***************************************************************************)
(* updateProjectMemberRole                                                 *)
(***************************************************************************)
updateRoleInputs(d) ==
  {[actor |-> actor, pid |-> pid, memberId |-> memberId, role |-> role] :
     actor \in Actors, pid \in ProjectParams(d), memberId \in Targets,
     role \in {UserRolesEnum.ADMIN, UserRolesEnum.MEMBER}}
    \cup {[actor |-> "u1", pid |-> SeedProject, memberId |-> "u2",
            role |-> UserRolesEnum.PROJECT_ADMIN]}
    \cup {[actor |-> "u1", pid |-> SeedProject, memberId |-> "u1", role |-> role] :
            role \in {NoRole, "owner", "ADMIN"}}
    \cup {[actor |-> "u1", pid |-> BadId, memberId |-> "u1", role |-> UserRolesEnum.MEMBER],
          [actor |-> "u1", pid |-> SeedProject, memberId |-> BadId,
           role |-> UserRolesEnum.MEMBER]}

\* validation (the role is compared as it was sent), Project.findById
updateProjectMemberRole(s) ==
  /\ Accept(s)
  /\ \E in \in updateRoleInputs(db), fail \in BOOLEAN :
       LET r == [Idle EXCEPT !.op = "updateMemberRole", !.actor = in.actor,
                             !.pid = in.pid, !.target = in.memberId, !.role = in.role]
       IN  IF ~isValid(in.pid) \/ ~isValid(in.memberId) THEN Reject(r, 400, "400", "none")
           ELSE IF in.role = NoRole \/ in.role \notin AvailableUserRoles
                THEN Reject(r, 400, "400", "none")
           ELSE IF fail THEN Reject(r, 500, "StoreFailure", "store")
           ELSE IF findById(db, in.pid) = {} THEN Reject(r, 500, "404", "none")
           ELSE Proceed(s, [r EXCEPT !.pc = "ur_member"])
  /\ UNCHANGED <<db, txn, nextP, nextM>>

\* ProjectMember.findOne({ project, users: memberId }): the document whose
\* role the handler will set
updateProjectMemberRole_member(s) ==
  /\ req[s].pc = "ur_member"
  /\ \E fail \in BOOLEAN :
       LET row == findOne(db, req[s].pid, req[s].target)
           e == IF fail THEN "StoreFailure"
                ELSE IF row.id = NoRow THEN "404"
                ELSE "none"
       IN  IF e # "none"
           THEN /\ req' = [req EXCEPT ![s] = Idle]
                /\ out' = DoneAt(req[s], 500, e, "none", FailedCall(e))
           ELSE /\ req' = [req EXCEPT ![s].pc = "admin_findById", ![s].mrow = row.id,
                                      ![s].seen = row.role]
                /\ out' = out
  /\ UNCHANGED <<db, txn, nextP, nextM, started>>

\* memberToUpdatRole.role = role: the document is modified when the role
\* assigned differs from the role it had when it was read
isModified(seen, role) == role # seen

\* memberToUpdatRole.save(): the first error raised when the document `mrow`
\* of project projectId is saved with role `role`
saveRoleError_LastAdminGuard(d, mrow, projectId, role, fail) ==
  IF fail THEN "StoreFailure"
  ELSE IF ~(\E m \in d.members : m.id = mrow) THEN "DocumentNotFound"
  ELSE IF /\ role # UserRolesEnum.ADMIN
          /\ \A m \in d.members :
               (m.project = projectId /\ m.role = UserRolesEnum.ADMIN) => m.id = mrow
       THEN "403"
  ELSE "none"

saveRoleError(d, mrow, projectId, role, fail) ==
  IF fail THEN "StoreFailure"
  ELSE IF ~(\E m \in d.members : m.id = mrow) THEN "DocumentNotFound"
  ELSE "none"

\* memberToUpdatRole.role = role; save().  A modified document is written:
\* the write waits while an open transaction holds the document.  An
\* unmodified document is only looked up, which does not wait.  Either way
\* save() fails when the document is gone.
updateProjectMemberRole_save(s) ==
  /\ req[s].pc = "ur_save"
  /\ isModified(req[s].seen, req[s].role) => req[s].mrow \notin OtherDelM(s)
  /\ \E fail \in BOOLEAN :
       LET e == saveRoleError(db, req[s].mrow, req[s].pid, req[s].role, fail)
       IN  IF e # "none"
           THEN /\ req' = [req EXCEPT ![s] = Idle]
                /\ out' = DoneAt(req[s], 500, e, "none", FailedCall(e))
                /\ db' = db
           ELSE /\ db' = IF isModified(req[s].seen, req[s].role)
                          THEN [db EXCEPT !.members =
                                  {IF m.id = req[s].mrow THEN [m EXCEPT !.role = req[s].role]
                                   ELSE m : m \in @}]
                          ELSE db
                /\ Finish(s, 200, "none", "none")
  /\ UNCHANGED <<txn, nextP, nextM, started>>

(***************************************************************************)
(* updateProject                                                           *)
(***************************************************************************)
updateProjectInputs(d) ==
  {[actor |-> "u1", pid |-> pid, name |-> name, description |-> Undefined] :
     pid \in ProjectParams(d), name \in Names}
    \cup {[actor |-> "u2", pid |-> SeedProject, name |-> "Beta", description |-> Undefined],
          [actor |-> "u1", pid |-> SeedProject, name |-> "", description |-> "Notes"]}
    \cup {[actor |-> "u1", pid |-> SeedProject, name |-> name, description |-> Undefined] :
            name \in NameInputs \ Names}
    \cup {[actor |-> "u1", pid |-> SeedProject, name |-> "  ", description |-> "Notes"],
          [actor |-> "u1", pid |-> BadId, name |-> "Beta", description |-> Undefined]}

\* the route's validator, the handler's validation, Project.findById
updateProject(s) ==
  /\ Accept(s)
  /\ \E in \in updateProjectInputs(db), fail \in BOOLEAN :
     \E description \in sanitized(in.description) :
       LET r == [Idle EXCEPT !.op = "updateProject", !.actor = in.actor, !.pid = in.pid,
                             !.target = Trim(in.name), !.desc = description]
       IN  IF validate(projectValidator(in.name)) # "none"
           THEN Reject(r, 422, "422", "none")
           ELSE IF ~isValid(in.pid) THEN Reject(r, 400, "400", "none")
           ELSE IF Trim(in.name) = "" /\ description = Undefined
                THEN Reject(r, 400, "400", "none")
           ELSE IF fail THEN Reject(r, 500, "StoreFailure", "store")
           ELSE IF findById(db, in.pid) = {} THEN Reject(r, 500, "404", "none")
           ELSE Proceed(s, [r EXCEPT !.pc = "admin_findById"])
  /\ UNCHANGED <<db, txn, nextP, nextM>>

\* { $set: updateData } applied to the project document p: updateData holds
\* the name when one was given, and the description unless it is undefined
updateData_WithOwner(p, name, description) ==
  [p EXCEPT !.name = IF name # "" THEN name ELSE @,
            !.description = IF description # Undefined THEN description ELSE @,
            !.createdBy = CHOOSE u \in Users : u # @]

updateData(p, name, description) ==
  [p EXCEPT !.name = IF name # "" THEN name ELSE @,
            !.description = IF description # Undefined THEN description ELSE @]

\* Project.findByIdAndUpdate(projectId, { $set: updateData }): one write
\* without a session.  It waits while an open transaction holds the document
\* or the name.  When the project is gone it finds nothing to update and
\* resolves to null: nothing is populated and the handler answers 200.
updateProject_write(s) ==
  /\ req[s].pc = "up_write"
  /\ req[s].pid \notin OtherDelP(s)
  /\ req[s].target \notin OtherStagedNames(s)
  /\ \E fail \in BOOLEAN :
       LET name == req[s].target
           description == req[s].desc
           e == IF fail THEN "StoreFailure"
                ELSE IF /\ name # ""
                        /\ findById(db, req[s].pid) # {}
                        /\ NameTaken([db EXCEPT !.projects =
                                         {p \in @ : p.id # req[s].pid}], name)
                     THEN "11000"
                ELSE "none"
       IN  IF e # "none"
           THEN /\ req' = [req EXCEPT ![s] = Idle]
                /\ out' = DoneAt(req[s], IF e = "11000" THEN 400 ELSE 500, e, "none",
                                 FailedCall(e))
                /\ db' = db
           ELSE IF findById(db, req[s].pid) = {}
           THEN /\ db' = db
                /\ Finish(s, 200, "none", "none")
           ELSE /\ db' = [db EXCEPT !.projects =
                       {IF p.id = req[s].pid THEN updateData(p, name, description)
                        ELSE p : p \in @}]
                /\ Goto(s, "up_populate")
  /\ UNCHANGED <<txn, nextP, nextM, started>>

\* .populate("createdBy", "fullName email"): the query for the creator's
\* user document, sent when the updated project has arrived.  When it
\* rejects, the catch block answers 500 and the update stays written.
updateProject_populate(s) ==
  /\ req[s].pc = "up_populate"
  /\ \E fail \in BOOLEAN :
       IF fail
       THEN /\ req' = [req EXCEPT ![s] = Idle]
            /\ out' = DoneAt(req[s], 500, "StoreFailure", "none", "store")
       ELSE Finish(s, 200, "none", "none")
  /\ UNCHANGED <<db, txn, nextP, nextM, started>>

(***************************************************************************)
(* createTask (task controller, which imports the shared helper).  The     *)
(* handler awaits Project.findById and then the helper, which throws; the  *)
(* calls after it are never made.                                          *)
(***************************************************************************)
\* the first store call of a handler rejects, or none does
FirstRead == {"none", "store"}

\* the request body of createTask and updateTask: its title, description,
\* status, assignedTo, dueDate and priority keys (a key that is not sent is
\* undefined, an assignedTo that is not sent is NoAssignee)
EmptyBody ==
  [title |-> Undefined, description |-> Undefined, status |-> Undefined,
   assignedTo |-> NoAssignee, dueDate |-> Undefined, priority |-> Undefined]
FullBody ==
  [title |-> "Task", description |-> Undefined, status |-> Undefined,
   assignedTo |-> "u2", dueDate |-> "2030-01-01", priority |-> TaskPrioritiesEnum.LOW]
TitleOnly == [EmptyBody EXCEPT !.title = "Task"]
TaskBodies ==
  {EmptyBody, TitleOnly, FullBody}
    \cup {[FullBody EXCEPT !.title = x] : x \in {"", "T"}}
    \cup {[FullBody EXCEPT !.assignedTo = x] : x \in {"u1", NoAssignee, BadId}}
    \cup {[FullBody EXCEPT !.dueDate = x] : x \in {Undefined, JsNull, "", "soon"}}
    \cup {[FullBody EXCEPT !.priority = x] : x \in {Undefined, "urgent"}}
    \cup {[FullBody EXCEPT !.description = "Notes", !.status = "DONE"],
          [FullBody EXCEPT !.assignedTo = "u1", !.status = "bogus"]}

\* new Date(value): null is the epoch, an ISO date is that date, anything
\* else is an invalid date
NewDate(value) ==
  IF value = JsNull THEN EpochDate
  ELSE IF value \in {"2030-01-01", "2031-05-05", EpochDate} THEN value
  ELSE InvalidDate

\* !isNaN(new Date(date).getDate())
isValidDate(date) == NewDate(date) # InvalidDate

\* JavaScript truthiness of a body value
Present(value) == value \notin {Undefined, JsNull, "", NoAssignee}

\* the handler's validation, Project.findById, isProjectMember for the actor,
\* the assignee's id, user document and isProjectMember, priority, dueDate:
\* the first error raised ("400a", "400p", "400d": an ApiError(400) raised
\* inside the try block)
createTaskChecks_NoMemberGate(d, actor, projectId, body, f) ==
  IF ~isValid(projectId) \/ ~Present(body.title) \/ Trim(body.title) = "" THEN "400"
  ELSE IF f = "store" THEN "StoreFailure"
  ELSE IF findById(d, projectId) = {} THEN "404"
  ELSE IF Present(body.assignedTo) /\ ~isValid(body.assignedTo) THEN "400a"
  ELSE IF Present(body.assignedTo) /\ body.assignedTo \notin Users THEN "404"
  ELSE IF Present(body.priority) /\ toLowerCase(body.priority) \notin AvailableTaskPriorities
       THEN "400p"
  ELSE IF Present(body.dueDate) /\ ~isValidDate(body.dueDate) THEN "400d"
  ELSE "none"

createTaskChecks(d, actor, projectId, body, f) ==
  IF ~isValid(projectId) \/ ~Present(body.title) \/ Trim(body.title) = "" THEN "400"
  ELSE IF f = "store" THEN "StoreFailure"
  ELSE IF findById(d, projectId) = {} THEN "404"
  ELSE IF helper_isProjectMember(d, projectId, actor, f) = "throw" THEN "ReferenceError"
  ELSE IF ~Truthy(helper_isProjectMember(d, projectId, actor, f)) THEN "403"
  ELSE IF Present(body.assignedTo) /\ ~isValid(body.assignedTo) THEN "400a"
  ELSE IF Present(body.assignedTo) /\ body.assignedTo \notin Users THEN "404"
  ELSE IF Present(body.assignedTo)
          /\ helper_isProjectMember(d, projectId, body.assignedTo, f) = "throw"
       THEN "ReferenceError"
  ELSE IF Present(body.assignedTo)
          /\ ~Truthy(helper_isProjectMember(d, projectId, body.assignedTo, f))
       THEN "403"
  ELSE IF Present(body.priority) /\ toLowerCase(body.priority) \notin AvailableTaskPriorities
       THEN "400p"
  ELSE IF Present(body.dueDate) /\ ~isValidDate(body.dueDate) THEN "400d"
  ELSE "none"

\* taskData: the document Task.create writes; status and createdAt are the
\* ones the schema gives a new task
taskData(id, actor, projectId, body) ==
  [id |-> id, project |-> projectId, assignedBy |-> actor,
   assignedTo |-> IF Present(body.assignedTo) THEN body.assignedTo ELSE NoAssignee,
   title |-> Trim(body.title),
   description |-> IF Present(body.description) THEN body.description ELSE "",
   status |-> TaskStatusEnum.TODO,
   priority |-> IF Present(body.priority) THEN toLowerCase(body.priority)
                ELSE TaskPrioritiesEnum.MEDIUM,
   dueDate |-> IF Present(body.dueDate) THEN NewDate(body.dueDate) ELSE NoDate,
   createdAt |-> id]

createTaskInputs(d) ==
  {[actor |-> actor, pid |-> pid, body |-> FullBody] :
     actor \in Actors, pid \in ProjectParams(d)}
    \cup {[actor |-> "u1", pid |-> SeedProject, body |-> body] : body \in TaskBodies}
    \cup {[actor |-> "u1", pid |-> BadId, body |-> FullBody]}

\* the request of a task handler with the body it sent
WithBody(r, body) ==
  [r EXCEPT !.role = body.title, !.target = body.assignedTo, !.due = body.dueDate,
            !.prio = body.priority, !.desc = body.description, !.status = body.status]

\* the whole request: the route's validator, then the handler: the checks,
\* then Task.create in a transaction; every error raised inside the try block
\* becomes a 500
createTask(s) ==
  /\ Accept(s)
  /\ \E in \in createTaskInputs(db), f \in FirstRead :
       LET r == WithBody([Idle EXCEPT !.op = "createTask", !.actor = in.actor,
                                      !.pid = in.pid], in.body)
           e == IF validate(createTaskValidator(in.body)) # "none" THEN "422"
                ELSE createTaskChecks(db, in.actor, in.pid, in.body, f)
       IN  /\ req' = req
           /\ IF e # "none"
              THEN /\ out' = DoneAt(r, IF e = "422" THEN 422 ELSE IF e = "400" THEN 400 ELSE 500,
                                    e, "none", FailedCall(e))
                   /\ db' = db
              ELSE /\ db' = [db EXCEPT !.tasks = @ \cup
                               {taskData(AddedRowId(started), in.actor, in.pid, in.body)}]
                   /\ out' = Done(r, 201, "none", "ended")
  /\ UNCHANGED <<txn, nextP, nextM>>

(***************************************************************************)
(* updateTask and deleteTask (task controller).  Each awaits Task.findById *)
(* and then throws: updateTask in the helper, deleteTask on the populated  *)
(* assignedBy.                                                             *)
(***************************************************************************)
MissingTaskId == 99
MalformedTaskId == -2
TaskIdInputs == {0, MissingTaskId, MalformedTaskId}

\* Task.findById(taskId): the set holding the task document, or empty
findTask(d, taskId) == {k \in d.tasks : k.id = taskId}

\* .populate(path).lean(): the reference is replaced by a plain object of
\* the referenced document, which has no equals method
populateLean(ref) == [_id |-> ref, equals |-> Undefined]

\* the handler's validation (a body with no key), Task.findById,
\* isProjectMember, isAssigned / isCreator / isProjectAdmin, the checks of a
\* new assignee, of status ("400s"), of priority and of dueDate, and the
\* empty title met while updateData is built ("400t"): the first error raised
updateTaskChecks_Ungated(d, actor, taskId, body, f) ==
  IF taskId = MalformedTaskId \/ body = EmptyBody THEN "400"
  ELSE IF f = "store" THEN "StoreFailure"
  ELSE IF findTask(d, taskId) = {} THEN "404"
  ELSE IF Present(body.status) /\ toLowerCase(body.status) \notin AvailableTaskStatus
       THEN "400s"
  ELSE IF Present(body.priority) /\ toLowerCase(body.priority) \notin AvailableTaskPriorities
       THEN "400p"
  ELSE IF Present(body.dueDate) /\ ~isValidDate(body.dueDate) THEN "400d"
  ELSE IF body.title # Undefined /\ Trim(body.title) = "" THEN "400t"
  ELSE "none"

updateTaskChecks(d, actor, taskId, body, f) ==
  IF taskId = MalformedTaskId \/ body = EmptyBody THEN "400"
  ELSE IF f = "store" THEN "StoreFailure"
  ELSE IF findTask(d, taskId) = {} THEN "404"
  ELSE LET task == CHOOSE k \in findTask(d, taskId) : TRUE
           isMember == helper_isProjectMember(d, task.project, actor, f)
           isAdmin == helper_isProjectAdmin(d, task.project, actor, f)
           isUserMember == helper_isProjectMember(d, task.project, body.assignedTo, f)
       IN  IF isMember = "throw" THEN "ReferenceError"
           ELSE IF ~Truthy(isMember) THEN "403"
           ELSE IF isAdmin = "throw" THEN "ReferenceError"
           ELSE IF task.assignedTo # actor /\ task.assignedBy # actor /\ ~Truthy(isAdmin)
                THEN "403"
           ELSE IF Present(body.assignedTo) /\ task.assignedTo # body.assignedTo
                   /\ ~isValid(body.assignedTo)
                THEN "400a"
           ELSE IF Present(body.assignedTo) /\ task.assignedTo # body.assignedTo
                   /\ body.assignedTo \notin Users
                THEN "404"
           ELSE IF Present(body.assignedTo) /\ task.assignedTo # body.assignedTo
                   /\ isUserMember = "throw"
                THEN "ReferenceError"
           ELSE IF Present(body.assignedTo) /\ task.assignedTo # body.assignedTo
                   /\ ~Truthy(isUserMember)
                THEN "403"
           ELSE IF Present(body.status)
                   /\ toLowerCase(body.status) \notin AvailableTaskStatus
                THEN "400s"
           ELSE IF Present(body.priority)
                   /\ toLowerCase(body.priority) \notin AvailableTaskPriorities
                THEN "400p"
           ELSE IF Present(body.dueDate) /\ ~isValidDate(body.dueDate) THEN "400d"
           ELSE IF body.title # Undefined /\ Trim(body.title) = "" THEN "400t"
           ELSE "none"

\* updateData.dueDate: the value $set writes, the stored value when the body
\* does not mention dueDate.  Only null reaches the third branch, and new
\* Date(null) is a valid date, so the 400 of the last branch is never raised.
updateData_dueDate(stored, dueDate) ==
  IF dueDate = Undefined THEN stored
  ELSE IF dueDate # JsNull \/ dueDate = "" THEN NoDate
  ELSE IF isValidDate(dueDate) THEN NewDate(dueDate)
  ELSE stored

\* Task.findByIdAndUpdate(taskId, { $set: updateData }): updateData holds
\* the trimmed title, the description unless it is undefined, a known status
\* and a known priority in lower case, the dueDate and the assignee
updateTaskData(k, body, description) ==
  [k EXCEPT !.title = IF body.title # Undefined THEN Trim(body.title) ELSE @,
            !.description = IF description # Undefined THEN description ELSE @,
            !.status = IF Present(body.status)
                          /\ toLowerCase(body.status) \in AvailableTaskStatus
                       THEN toLowerCase(body.status) ELSE @,
            !.priority = IF Present(body.priority)
                            /\ toLowerCase(body.priority) \in AvailableTaskPriorities
                         THEN toLowerCase(body.priority) ELSE @,
            !.dueDate = updateData_dueDate(@, body.dueDate),
            !.assignedTo = IF Present(body.assignedTo) THEN body.assignedTo ELSE @]

updateTaskInputs ==
  {[actor |-> actor, taskId |-> 0, body |-> body] :
     actor \in Actors, body \in {FullBody, [FullBody EXCEPT !.assignedTo = "u1"]}}
    \cup {[actor |-> "u1", taskId |-> 0, body |-> body] : body \in TaskBodies}
    \cup {[actor |-> "u1", taskId |-> taskId, body |-> FullBody] :
            taskId \in TaskIdInputs \ {0}}

\* the whole request: the route's validator (the one of createTask), then
\* the handler: the checks, then Task.findByIdAndUpdate; every error raised
\* inside the try block becomes a 500
updateTask(s) ==
  /\ Accept(s)
  /\ \E in \in updateTaskInputs, f \in FirstRead :
     \E description \in sanitized(in.body.description) :
       LET r == WithBody([Idle EXCEPT !.op = "updateTask", !.actor = in.actor,
                            !.mrow = in.taskId,
                            !.pid = IF findTask(db, in.taskId) = {} THEN ""
                                    ELSE (CHOOSE k \in findTask(db, in.taskId) : TRUE).project],
                         in.body)
           e == IF validate(createTaskValidator(in.body)) # "none" THEN "422"
                ELSE updateTaskChecks(db, in.actor, in.taskId, in.body, f)
       IN  /\ req' = req
           /\ IF e # "none"
              THEN /\ out' = DoneAt(r, IF e = "422" THEN 422 ELSE IF e = "400" THEN 400 ELSE 500,
                                    e, "none", FailedCall(e))
                   /\ db' = db
              ELSE /\ db' = [db EXCEPT !.tasks =
                          {IF k.id = in.taskId THEN updateTaskData(k, in.body, description)
                           ELSE k : k \in @}]
                   /\ out' = Done(r, 200, "none", "none")
  /\ UNCHANGED <<txn, nextP, nextM>>

\* validation, Task.findById(...).populate("project assignedBy").lean(),
\* isCreator, isProjectAdmin: the first error raised
deleteTaskChecks(d, actor, taskId, f) ==
  IF taskId = MalformedTaskId THEN "400"
  ELSE IF f = "store" THEN "StoreFailure"
  ELSE IF findTask(d, taskId) = {} THEN "404"
  ELSE LET task == CHOOSE k \in findTask(d, taskId) : TRUE
           assignedBy == populateLean(task.assignedBy)
           isAdmin == helper_isProjectAdmin(d, task.project, actor, f)
       IN  IF assignedBy.equals = Undefined THEN "TypeError"
           ELSE IF isAdmin = "throw" THEN "ReferenceError"
           ELSE IF task.assignedBy # actor /\ ~Truthy(isAdmin) THEN "403"
           ELSE "none"

deleteTaskInputs ==
  {[actor |-> actor, taskId |-> taskId] : actor \in Actors, taskId \in {0, MissingTaskId}}
    \cup {[actor |-> "u1", taskId |-> MalformedTaskId]}

\* the whole handler: the checks, then Task.findByIdAndDelete in a
\* transaction; every error raised inside the try block becomes a 500
deleteTask(s) ==
  /\ Accept(s)
  /\ \E in \in deleteTaskInputs, f \in FirstRead :
       LET r == [Idle EXCEPT !.op = "deleteTask", !.actor = in.actor, !.mrow = in.taskId,
                             !.pid = IF findTask(db, in.taskId) = {} THEN ""
                                     ELSE (CHOOSE k \in findTask(db, in.taskId) : TRUE).project]
           e == deleteTaskChecks(db, in.actor, in.taskId, f)
       IN  /\ req' = req
           /\ IF e # "none"
              THEN /\ out' = DoneAt(r, IF e = "400" THEN 400 ELSE 500, e, "none",
                                    FailedCall(e))
                   /\ db' = db
              ELSE /\ db' = [db EXCEPT !.tasks = {k \in @ : k.id # in.taskId}]
                   /\ out' = Done(r, 200, "none", "ended")
  /\ UNCHANGED <<txn, nextP, nextM>>

(***************************************************************************)
(* createNote, updateNote, deleteNote (note controller).  The module binds *)
(* neither `mongoose` nor `ApiError`; each handler evaluates `mongoose` in *)
(* its first statement, before any store call.                             *)
(***************************************************************************)
NoteBindings ==
  {"ProjectNote", "Project", "ApiResponse", "asyncHandler", "isProjectAdmin", "isProjectMember"}
NoteIdInputs == {"n1", BadId}
ContentInputs == {"text", ""}

findNote(d, noteId) == {n \in d.notes : n.id = noteId}

createNoteChecks(d, actor, projectId, content, f) ==
  IF "mongoose" \notin NoteBindings THEN "ReferenceError"
  ELSE IF ~isValid(projectId) \/ Trim(content) = "" THEN "400"
  ELSE IF findById(d, projectId) = {} THEN "404"
  ELSE IF helper_isProjectMember(d, projectId, actor, f) = "throw" THEN "ReferenceError"
  ELSE IF ~Truthy(helper_isProjectMember(d, projectId, actor, f)) THEN "403"
  ELSE "none"

createNoteInputs(d) ==
  {[actor |-> actor, pid |-> pid, content |-> "text"] :
     actor \in Actors, pid \in ProjectParams(d)}
    \cup {[actor |-> "u1", pid |-> SeedProject, content |-> ""],
          [actor |-> "u1", pid |-> BadId, content |-> "text"]}

\* the route's validator, then the handler
createNote(s) ==
  /\ Accept(s)
  /\ \E in \in createNoteInputs(db) :
       LET r == [Idle EXCEPT !.op = "createNote", !.actor = in.actor, !.pid = in.pid,
                             !.target = in.content]
           e == IF validate(noteValidator(in.content)) # "none" THEN "422"
                ELSE createNoteChecks(db, in.actor, in.pid, in.content, "none")
       IN  /\ req' = req
           /\ IF e # "none"
              THEN /\ out' = Done(r, IF e = "422" THEN 422 ELSE 500, e, "none")
                   /\ db' = db
              ELSE /\ db' = [db EXCEPT !.notes = @ \cup
                          {[id |-> "n2", project |-> in.pid, createdBy |-> in.actor,
                            content |-> Trim(in.content)]}]
                   /\ out' = Done(r, 201, "none", "open")
  /\ UNCHANGED <<txn, nextP, nextM>>

\* updateNote and deleteNote share their checks: validation, the note
\* lookup, isCreator, isProjectAdmin
noteChecks_Ungated(d, actor, noteId, content, f) ==
  IF ~isValid(noteId) \/ Trim(content) = "" THEN "400"
  ELSE IF findNote(d, noteId) = {} THEN "404"
  ELSE "none"

noteChecks(d, actor, noteId, content, f) ==
  IF "mongoose" \notin NoteBindings THEN "ReferenceError"
  ELSE IF ~isValid(noteId) \/ Trim(content) = "" THEN "400"
  ELSE IF findNote(d, noteId) = {} THEN "404"
  ELSE LET note == CHOOSE n \in findNote(d, noteId) : TRUE
           isAdmin == helper_isProjectAdmin(d, note.project, actor, f)
       IN  IF isAdmin = "throw" THEN "ReferenceError"
           ELSE IF note.createdBy # actor /\ ~Truthy(isAdmin) THEN "403"
           ELSE "none"

noteInputs ==
  {[actor |-> actor, noteId |-> "n1", content |-> "text"] : actor \in Actors}
    \cup {[actor |-> "u1", noteId |-> "n1", content |-> ""],
          [actor |-> "u1", noteId |-> BadId, content |-> "text"]}

\* the route's validator, then the handler
updateNote(s) ==
  /\ Accept(s)
  /\ \E in \in noteInputs :
       LET r == [Idle EXCEPT !.op = "updateNote", !.actor = in.actor, !.target = in.noteId,
                             !.role = in.content]
           e == IF validate(noteValidator(in.content)) # "none" THEN "422"
                ELSE noteChecks(db, in.actor, in.noteId, in.content, "none")
       IN  /\ req' = req
           /\ IF e # "none"
              THEN /\ out' = Done(r, IF e = "422" THEN 422 ELSE 500, e, "none")
                   /\ db' = db
              ELSE /\ db' = [db EXCEPT !.notes =
                          {IF n.id = in.noteId THEN [n EXCEPT !.content = Trim(in.content)]
                           ELSE n : n \in @}]
                   /\ out' = Done(r, 200, "none", "ended")
  /\ UNCHANGED <<txn, nextP, nextM>>

deleteNote(s) ==
  /\ Accept(s)
  /\ \E in \in {i \in noteInputs : i.content = "text"} :
       LET r == [Idle EXCEPT !.op = "deleteNote", !.actor = in.actor, !.target = in.noteId]
           e == noteChecks(db, in.actor, in.noteId, "text", "none")
       IN  /\ req' = req
           /\ IF e # "none"
              THEN /\ out' = Done(r, 500, e, "none")
                   /\ db' = db
              ELSE /\ db' = [db EXCEPT !.notes = {n \in @ : n.id # in.noteId}]
                   /\ out' = Done(r, 200, "none", "none")
  /\ UNCHANGED <<txn, nextP, nextM>>

(***************************************************************************)
(* Specification.  Spec interleaves the steps of the requests in the two    *)
(* slots.                                                                  *)
(***************************************************************************)
\* the caller takes the response (or gives up waiting for one)
Deliver ==
  /\ out # Idle
  /\ out' = Idle
  /\ UNCHANGED <<db, txn, req, nextP, nextM, started>>

Step(s) ==
  \/ isProjectAdmin_findById(s)
  \/ isProjectAdmin_findOne(s)
  \/ createProject(s)
  \/ createProject_create(s)
  \/ createProject_member(s)
  \/ createProject_read(s)
  \/ createProject_commit(s)
  \/ createProject_end(s)
  \/ createProject_abort(s)
  \/ createProject_abort_end(s)
  \/ deleteProject(s)
  \/ deleteProject_session(s)
  \/ deleteProject_project(s)
  \/ deleteProject_members(s)
  \/ deleteProject_tasks(s)
  \/ deleteProject_commit(s)
  \/ deleteProject_abort(s)
  \/ addMemberToProject(s)
  \/ addMemberToProject_user(s)
  \/ addMemberToProject_existing(s)
  \/ addMemberToProject_create(s)
  \/ removeMemberFromProject(s)
  \/ removeMemberFromProject_member(s)
  \/ updateProjectMemberRole(s)
  \/ updateProjectMemberRole_member(s)
  \/ updateProjectMemberRole_save(s)
  \/ createTask(s)
  \/ updateProject(s)
  \/ updateProject_write(s)
  \/ updateProject_populate(s)
  \/ updateTask(s)
  \/ deleteTask(s)
  \/ createNote(s)
  \/ updateNote(s)
  \/ deleteNote(s)

Next == Deliver \/ (out = Idle /\ \E s \in Slots : Step(s))

Spec == Init /\ [][Next]_vars

(***************************************************************************)
(* Listings: the filtered, sorted and paginated reads.  A page or limit    *)
(* parameter is the sequence of the characters of its query-string value;  *)
(* the other parameters are strings.  A read request occupies a slot like  *)
(* any other request and takes one step per awaited store call, so the     *)
(* steps of a request that writes fall between its reads.                  *)
(***************************************************************************)
\* a page / limit parameter the caller did not send (req.query.x undefined)
Absent == <<"undefined">>
\* any other parameter the caller did not send
NoParam == "(absent)"
\* a filter field that carries no constraint
AnyValue == "(any)"
\* the well-formed project ids: a filter with no constraint on the project
AnyProject == ProjIds \cup {SeedProject, MissingProject}

DigitValue ==
  ("0" :> 0) @@ ("1" :> 1) @@ ("2" :> 2) @@ ("3" :> 3) @@ ("4" :> 4) @@
  ("5" :> 5) @@ ("6" :> 6) @@ ("7" :> 7) @@ ("8" :> 8) @@ ("9" :> 9)

NaN == [nan |-> TRUE, val |-> 0]

RECURSIVE TrimStart(_)
TrimStart(str) ==
  IF str # <<>> /\ Head(str) = " " THEN TrimStart(Tail(str)) ELSE str

RECURSIVE DigitPrefix(_)
DigitPrefix(str) ==
  IF str # <<>> /\ Head(str) \in DOMAIN DigitValue
  THEN <<Head(str)>> \o DigitPrefix(Tail(str))
  ELSE <<>>

RECURSIVE DecimalValue(_)
DecimalValue(ds) ==
  IF ds = <<>> THEN 0
  ELSE 10 * DecimalValue(SubSeq(ds, 1, Len(ds) - 1)) + DigitValue[ds[Len(ds)]]

\* parseInt(str, 10): leading white space, an optional sign, then the longest
\* run of decimal digits; NaN when there is no digit
parseInt(str) ==
  LET t == TrimStart(str)
      signed == t # <<>> /\ Head(t) \in {"-", "+"}
      ds == DigitPrefix(IF signed THEN Tail(t) ELSE t)
  IN  IF ds = <<>> THEN NaN
      ELSE [nan |-> FALSE,
            val |-> IF signed /\ Head(t) = "-" THEN 0 - DecimalValue(ds)
                    ELSE DecimalValue(ds)]

\* `x > 0 ? x : d`
PositiveOr(x, d) == IF ~x.nan /\ x.val > 0 THEN x.val ELSE d

\* `x || d`: NaN and 0 are falsy
TruthyOr(x, d) == IF x.nan \/ x.val = 0 THEN d ELSE x.val

\* the default of a destructured parameter: `{ page = 1, limit = 10 }`
OrDefault(raw, dflt) == IF raw = Absent THEN dflt ELSE raw

\* `sort = "createdAt"`, `order = "desc"`
StringOrDefault(raw, dflt) == IF raw = NoParam THEN dflt ELSE raw

\* `x && ...`: an absent or empty parameter is falsy
Given(x) == x \notin {NoParam, ""}

\* Math.ceil(total / limit), limit # 0
Ceil(total, limit) ==
  IF limit > 0 THEN (total + limit - 1) \div limit
  ELSE 0 - (total \div (0 - limit))

\* a store with two projects, their creators' membership rows, four tasks
\* without a due date and two notes
TeamDb ==
  [projects |-> {[id |-> SeedProject, name |-> "Alpha", description |-> "",
                  createdBy |-> "u1"],
                 [id |-> ProjIdSeq[1], name |-> "Gamma", description |-> "",
                  createdBy |-> "u3"]},
   members  |-> {[id |-> 0, project |-> SeedProject, users |-> "u1", role |-> UserRolesEnum.ADMIN],
                 [id |-> CreatorRowId(1), project |-> ProjIdSeq[1], users |-> "u3",
                  role |-> UserRolesEnum.ADMIN]},
   tasks    |-> {[id |-> 0, project |-> SeedProject, assignedBy |-> "u1", assignedTo |-> "u2",
                  title |-> "Report", description |-> "", status |-> "todo",
                  priority |-> "high",
                  dueDate |-> NoDate, createdAt |-> 1],
                 [id |-> 1, project |-> SeedProject, assignedBy |-> "u1", assignedTo |-> "u2",
                  title |-> "Budget", description |-> "", status |-> "done",
                  priority |-> "low",
                  dueDate |-> NoDate, createdAt |-> 2],
                 [id |-> 2, project |-> SeedProject, assignedBy |-> "u2", assignedTo |-> NoAssignee,
                  title |-> "Report", description |-> "", status |-> "todo",
                  priority |-> "medium",
                  dueDate |-> NoDate, createdAt |-> 3],
                 [id |-> 3, project |-> ProjIdSeq[1], assignedBy |-> "u3", assignedTo |-> "u3",
                  title |-> "Report", description |-> "", status |-> "todo",
                  priority |-> "high",
                  dueDate |-> NoDate, createdAt |-> 4]},
   notes    |-> {[id |-> "n1", project |-> SeedProject, createdBy |-> "u1",
                  content |-> "draft", createdAt |-> 1],
                 [id |-> "n2", project |-> ProjIdSeq[1], createdBy |-> "u3",
                  content |-> "draft", createdAt |-> 2]}]

\* the order of the strings the model sorts by (code-unit order)
StringRank ==
  ("Budget" :> 1) @@ ("Report" :> 2) @@ ("done" :> 3) @@ ("high" :> 4) @@
  ("low" :> 5) @@ ("medium" :> 6) @@ ("todo" :> 7)

\* { title: /term/i } or { $text: { $search: term } } on the titles of TeamDb
searchMatch(term, title) == term = "report" /\ title = "Report"

NoFilter ==
  [project |-> AnyProject, assignedTo |-> AnyValue, status |-> AnyValue,
   priority |-> AnyValue, search |-> AnyValue]

\* a document matches a filter
Matches(k, f) ==
  /\ k.project \in f.project
  /\ f.assignedTo = AnyValue \/ k.assignedTo = f.assignedTo
  /\ f.status = AnyValue \/ k.status = f.status
  /\ f.priority = AnyValue \/ k.priority = f.priority
  /\ f.search = AnyValue \/ searchMatch(f.search, k.title)

\* Model.countDocuments(filter)
countDocuments_Unfiltered(rows, f) == Cardinality(rows)

countDocuments(rows, f) == Cardinality({k \in rows : Matches(k, f)})

\* the value a document is sorted by; a field it does not have, or one that
\* is null, sorts as null
SortKey(k, field) ==
  IF field \in {"createdAt", "updatedAt"} THEN k.createdAt
  ELSE IF field \in {"title", "status", "priority"} /\ field \in DOMAIN k
       THEN StringRank[k[field]]
  ELSE 0

\* .sort({ [field]: dir }): a comes before b; documents with equal keys come
\* in no specified order
Before(a, b, field, dir) == dir * SortKey(a, field) < dir * SortKey(b, field)

\* every order in which the store can return rows sorted by field
RECURSIVE SortOrders(_, _, _)
SortOrders(rows, field, dir) ==
  IF rows = {} THEN {<<>>}
  ELSE UNION {{<<a>> \o rest : rest \in SortOrders(rows \ {a}, field, dir)} :
                a \in {x \in rows : \A b \in rows : ~Before(b, x, field, dir)}}

Min(a, b) == IF a < b THEN a ELSE b

\* Model.find(filter).sort(sortOptions).skip(skip).limit(limit): the server
\* rejects a negative skip; a negative limit returns one batch of at most
\* |limit| documents; limit 0 is no limit
findRejects(q) == q.skip < 0

\* the pages the store can return: one for every order of the matching rows
find(rows, f, q) ==
  LET n == IF q.limit < 0 THEN 0 - q.limit ELSE q.limit
      Page(all) ==
        LET last == IF n = 0 THEN Len(all) ELSE Min(q.skip + n, Len(all))
        IN  IF q.skip + 1 > last THEN <<>> ELSE SubSeq(all, q.skip + 1, last)
  IN  {Page(all) : all \in SortOrders({k \in rows : Matches(k, f)}, q.sortField, q.sortDir)}

NoQuery == [page |-> 0, limit |-> 0, skip |-> 0, sortField |-> "(no query)", sortDir |-> 0]
\* .sort({}): no sort field
NoSortField == "(unsorted)"
NoPagination == [total |-> -1, limit |-> 0, page |-> 0, pages |-> 0]
\* no count has come back yet
NoCount == -1

\* a read request: its inputs, its position, the query and the filter it
\* built, the count it received, the documents it found, the paths it has
\* still to populate, and what it returned
Reading ==
  [op |-> "none", actor |-> "", pid |-> NoParam, pc |-> "idle", resp |-> 0,
   err |-> "none", fail |-> "none",
   page |-> Absent, limit |-> Absent, sort |-> NoParam, order |-> NoParam,
   status |-> NoParam, assignedTo |-> NoParam, priority |-> NoParam, search |-> NoParam,
   taskId |-> NoRow,
   sent |-> NoQuery, filter |-> NoFilter, counted |-> NoCount,
   items |-> <<>>, paths |-> <<>>, pagination |-> NoPagination]

\* the query string of a request without parameters
NoQueryParams ==
  [page |-> Absent, limit |-> Absent, sort |-> NoParam, order |-> NoParam,
   status |-> NoParam, assignedTo |-> NoParam, priority |-> NoParam, search |-> NoParam]

PageInputs == {<<"2">>, <<"0">>, <<"-", "1">>, <<"a", "b", "c">>}
LimitInputs ==
  {<<"1">>, <<"2", "x">>, <<"0">>, <<"-", "2">>, <<"1", "0", "0", "0", "0", "0", "0">>}
SortInputs == {"title", "__proto__", "dueDate", "status"}
OrderInputs == {"ASC", "asc"}
StatusInputs == {"TODO", "bogus"}

\* the query strings the requests send: no parameter, one parameter, and the
\* combinations that page through a listing one row at a time
QueryInputs ==
  {NoQueryParams}
    \cup {[NoQueryParams EXCEPT !.page = p] : p \in PageInputs}
    \cup {[NoQueryParams EXCEPT !.limit = l] : l \in LimitInputs}
    \cup {[NoQueryParams EXCEPT !.sort = f] : f \in SortInputs}
    \cup {[NoQueryParams EXCEPT !.sort = "title", !.order = o] : o \in OrderInputs}
    \cup {[NoQueryParams EXCEPT !.status = x] : x \in StatusInputs}
    \cup {[NoQueryParams EXCEPT !.assignedTo = "u2"],
          [NoQueryParams EXCEPT !.priority = "HIGH"],
          [NoQueryParams EXCEPT !.search = "report"],
          [NoQueryParams EXCEPT !.limit = <<"-", "2">>, !.status = "TODO", !.priority = "HIGH"]}
    \cup {[NoQueryParams EXCEPT !.page = p, !.limit = <<"1">>] :
            p \in {<<"2">>, <<"3">>, <<"4">>, <<"-", "1">>}}

\* the requests to a handler that fails before it reads its pagination and
\* sort parameters: every user and project without parameters, and one
\* request that names a sort field
GateInputs(d, projectIds) ==
  {[actor |-> actor, pid |-> pid, query |-> NoQueryParams] :
     actor \in Users, pid \in projectIds}
    \cup {[actor |-> "u3", pid |-> ProjIdSeq[1],
            query |-> [NoQueryParams EXCEPT !.sort = "__proto__"]]}

ReadRequest(op, actor, projectId, query) ==
  [Reading EXCEPT !.op = op, !.actor = actor, !.pid = projectId,
                  !.page = query.page, !.limit = query.limit, !.sort = query.sort,
                  !.order = query.order, !.status = query.status,
                  !.assignedTo = query.assignedTo, !.priority = query.priority,
                  !.search = query.search]

ReadOps ==
  {"getProjectTasks", "getProjectTask", "getTaskById", "getMyTasks", "getNotes",
   "getNoteByProjectId"}

\* a read request arrives at a free slot.  One read is in flight at a time:
\* a read changes no document, so a second one would see what it sees alone
AcceptRead(s) ==
  /\ out = Idle
  /\ req[s].pc = "idle"
  /\ s = "b" => req["a"].pc # "idle"
  /\ \A t \in Slots : req[t].op \notin ReadOps

\* the answer of a read: status `code`, error e, f the call that rejected
Fails(r, code, e, f) ==
  [r EXCEPT !.resp = code, !.err = e, !.fail = f, !.items = <<>>, !.paths = <<>>]

\* res.status(200).json({ items, pagination: { total, limit, page, pages } })
Listed(r, total, items) ==
  [r EXCEPT !.resp = 200, !.items = items, !.paths = <<>>,
            !.pagination = [total |-> total, limit |-> r.sent.limit, page |-> r.sent.page,
                            pages |-> Ceil(total, r.sent.limit)]]

\* the read in slot s ends with answer r
ReadEnds(s, r) ==
  /\ req' = [req EXCEPT ![s] = Idle]
  /\ out' = r

\* what the store makes of a call
StoreOutcomes == {"ok", "StoreFailure"}

\* .populate("asignedTo") / .populate("asignedBy") name paths the Task schema
\* does not have: a mongoose with strictPopulate (the default since 6.0)
\* rejects the query, an older one ignores the paths
PopulateOutcomes == {"ok", "StrictPopulateError"}

(***************************************************************************)
(* The queries and filters of the listings.                                *)
(***************************************************************************)
allowedSortBy == {"createdAt", "updatedAt", "title", "status"}

\* getProjectTasks (project controller): page, limit, skip and sortOptions
getProjectTasks_query(page, limit, sortBy, sortOrder) ==
  LET p == PositiveOr(parseInt(OrDefault(page, <<"1">>)), 1)
      l == PositiveOr(parseInt(OrDefault(limit, <<"1", "0">>)), 10)
      by == StringOrDefault(sortBy, "createdAt")
  IN  [page |-> p, limit |-> l, skip |-> (p - 1) * l,
       sortField |-> IF by \in allowedSortBy THEN by ELSE "createdAt",
       sortDir |-> IF toLowerCase(StringOrDefault(sortOrder, "desc")) = "asc" THEN 1 ELSE -1]

getProjectTasks_filter(projectId, status, assignedTo, search) ==
  [project |-> {projectId},
   status |-> IF Given(status) /\ toLowerCase(status) \in AvailableTaskStatus
              THEN toLowerCase(status) ELSE AnyValue,
   assignedTo |-> IF Given(assignedTo) /\ isValid(assignedTo) THEN assignedTo ELSE AnyValue,
   priority |-> AnyValue,
   search |-> IF Given(search) /\ Trim(search) # "" THEN Trim(search) ELSE AnyValue]

\* getProjectTask (task controller): the sort field is the caller's.
\* sortOptions["__proto__"] = -1 adds no key of its own to sortOptions, so
\* the query is sent with .sort({})
getProjectTask_query(page, limit, sort, order) ==
  LET p == TruthyOr(parseInt(page), 1)
      l == TruthyOr(parseInt(limit), 10)
  IN  [page |-> p, limit |-> l, skip |-> (p - 1) * l,
       sortField |-> IF sort = "__proto__" THEN NoSortField
                     ELSE StringOrDefault(sort, "createdAt"),
       sortDir |-> IF StringOrDefault(order, "desc") = "asc" THEN 1 ELSE -1]

getProjectTask_filter(projectId, status, assignedTo, priority, search) ==
  [project |-> {projectId},
   status |-> IF Given(status) /\ toLowerCase(status) \in AvailableTaskStatus
              THEN toLowerCase(status) ELSE AnyValue,
   assignedTo |-> IF Given(assignedTo) /\ isValid(assignedTo) THEN assignedTo ELSE AnyValue,
   priority |-> IF Given(priority) /\ toLowerCase(priority) \in AvailableTaskPriorities
                THEN toLowerCase(priority) ELSE AnyValue,
   search |-> IF Given(search) /\ Trim(search) # "" THEN search ELSE AnyValue]

allowedSortFields == {"createdAt", "dueDate", "priority", "title"}

\* getMyTasks: parseInt without a radix is the same as radix 10 on the
\* decimal strings the model enumerates
getMyTasks_query(page, limit, sort, order) ==
  LET p == TruthyOr(parseInt(OrDefault(page, <<"1">>)), 1)
      l == TruthyOr(parseInt(OrDefault(limit, <<"1", "0">>)), 10)
      by == StringOrDefault(sort, "createdAt")
  IN  [page |-> p, limit |-> l, skip |-> (p - 1) * l,
       sortField |-> IF by \in allowedSortFields THEN by ELSE "createdAt",
       sortDir |-> IF by \in allowedSortFields /\ StringOrDefault(order, "desc") = "asc"
                   THEN 1 ELSE -1]

getMyTasks_filter(actor, projectId, status, priority, search) ==
  [project |-> IF Given(projectId) /\ isValid(projectId) THEN {projectId} ELSE AnyProject,
   status |-> IF Given(status) /\ toLowerCase(status) \in AvailableTaskStatus
              THEN toLowerCase(status) ELSE AnyValue,
   assignedTo |-> actor,
   priority |-> IF Given(priority) /\ toLowerCase(priority) \in AvailableTaskPriorities
                THEN toLowerCase(priority) ELSE AnyValue,
   search |-> IF Given(search) /\ Trim(search) # "" THEN Trim(search) ELSE AnyValue]

\* getNotes, getNoteByProjectId: pageNumber, limitNumber, skip and
\* sortOptions; the sort field is the caller's, and "__proto__" leaves
\* sortOptions without a key
getNotes_query(page, limit, sort, order) ==
  LET p == TruthyOr(parseInt(OrDefault(page, <<"1">>)), 1)
      l == TruthyOr(parseInt(OrDefault(limit, <<"1", "0">>)), 10)
  IN  [page |-> p, limit |-> l, skip |-> (p - 1) * l,
       sortField |-> IF sort = "__proto__" THEN NoSortField
                     ELSE StringOrDefault(sort, "createdAt"),
       sortDir |-> IF StringOrDefault(order, "desc") = "asc" THEN 1 ELSE -1]

\* filter.project: the project asked for, or { $in: memberProjects }
getNotes_filter(d, actor, projectId) ==
  [NoFilter EXCEPT !.project =
     IF Given(projectId) THEN {projectId}
     ELSE {p.id : p \in {x \in d.projects :
                          x.createdBy = actor \/ findOne(d, x.id, actor).id # NoRow}}]

NoteListingOps == {"getNotes", "getNoteByProjectId"}

\* the collection a listing reads
CollectionOf(d, op) == IF op \in NoteListingOps THEN d.notes ELSE d.tasks

\* the pagination and sort options the request r computes
QueryOf(r) ==
  CASE r.op = "getProjectTasks" -> getProjectTasks_query(r.page, r.limit, r.sort, r.order)
    [] r.op = "getProjectTask" -> getProjectTask_query(r.page, r.limit, r.sort, r.order)
    [] r.op = "getMyTasks" -> getMyTasks_query(r.page, r.limit, r.sort, r.order)
    [] OTHER -> getNotes_query(r.page, r.limit, r.sort, r.order)

\* the filter object the request r builds
FilterOf(d, r) ==
  CASE r.op = "getProjectTasks" ->
         getProjectTasks_filter(r.pid, r.status, r.assignedTo, r.search)
    [] r.op = "getProjectTask" ->
         getProjectTask_filter(r.pid, r.status, r.assignedTo, r.priority, r.search)
    [] r.op = "getMyTasks" ->
         getMyTasks_filter(r.actor, r.pid, r.status, r.priority, r.search)
    [] r.op = "getNotes" -> getNotes_filter(d, r.actor, r.pid)
    [] OTHER -> [NoFilter EXCEPT !.project = {r.pid}]

(***************************************************************************)
(* The queries of a listing: `await Model.countDocuments(filter)`, then    *)
(* `await Model.find(filter)...`, whose populate calls send one more query *)
(* for every populated path once the documents have arrived; each query is *)
(* a step of its own.  The filter is built once and handed to both         *)
(* countDocuments and find; the catch block answers 500.                   *)
(***************************************************************************)
\* the request r has built its query and its filter and awaits the count
Counting(d, r) == [r EXCEPT !.sent = QueryOf(r), !.filter = FilterOf(d, r)]

\* the count came back: the request r awaits the page
Counted(d, r) ==
  [r EXCEPT !.pc = "find", !.counted = countDocuments(CollectionOf(d, r.op), r.filter)]

\* const total = await Model.countDocuments(filter)
Listing_countDocuments(s) ==
  /\ req[s].pc = "count"
  /\ \E outcome \in StoreOutcomes :
       LET r == Counting(db, req[s])
       IN  IF outcome # "ok" THEN ReadEnds(s, Fails(r, 500, outcome, "store"))
           ELSE /\ req' = [req EXCEPT ![s] = Counted(db, r)]
                /\ out' = out
  /\ UNCHANGED <<db, txn, nextP, nextM, started>>

\* the documents of the request r have arrived: the paths its query
\* populates, in the order of the chain, that some document has a reference
\* for.  The paths getProjectTasks names are not paths of the schema.
Found(r, items) ==
  LET chain == CASE r.op = "getMyTasks" -> <<"project">>
                 [] r.op = "getProjectTask" -> <<"assignedTo", "assignedBy">>
                 [] r.op = "getTaskById" -> <<"assignedTo", "assignedBy", "project">>
                 [] r.op \in NoteListingOps -> <<"createdBy", "project">>
                 [] OTHER -> <<>>
      HasRef(path) == \E i \in 1..Len(items) : items[i][path] # NoAssignee
  IN  [r EXCEPT !.items = items, !.paths = SelectSeq(chain, HasRef),
                !.pc = "populate"]

\* const items = await Model.find(filter)...lean(): the query of the page.
\* With nothing to populate the handler answers.
Listing_find(s) ==
  /\ req[s].pc = "find"
  /\ \E outcome \in StoreOutcomes \cup PopulateOutcomes :
       LET r == req[s]
       IN  IF outcome = "StrictPopulateError" /\ r.op # "getProjectTasks" THEN FALSE
           ELSE IF outcome # "ok"
           THEN ReadEnds(s, Fails(r, 500, outcome, FailedCall(outcome)))
           ELSE IF findRejects(r.sent) THEN ReadEnds(s, Fails(r, 500, "BadValue", "none"))
           ELSE \E items \in find(CollectionOf(db, r.op), r.filter, r.sent) :
                  IF Found(r, items).paths = <<>>
                  THEN ReadEnds(s, Listed(r, r.counted, items))
                  ELSE /\ req' = [req EXCEPT ![s] = Found(r, items)]
                       /\ out' = out
  /\ UNCHANGED <<db, txn, nextP, nextM, started>>

(***************************************************************************)
(* getProjectTasks (project controller)                                    *)
(***************************************************************************)
\* if (!isMember) throw new ApiError(403, ...)
MemberGate_Open(result) == "none"

MemberGate(result) == IF Truthy(result) THEN "none" ELSE "403"

\* isProjectMember resolved to `result`, lookup f having failed: the handler
\* goes on to its queries, or throws and its catch block answers 500
MemberResolved(s, result, f) ==
  IF MemberGate(result) = "none" THEN Goto(s, "count")
  ELSE ReadEnds(s, Fails(req[s], 500, MemberGate(result), f))

getProjectTasksInputs(d) ==
  {[actor |-> "u1", pid |-> SeedProject, query |-> q] : q \in QueryInputs}
    \cup {[actor |-> actor, pid |-> pid, query |-> NoQueryParams] :
            actor \in Users, pid \in ProjectParams(d) \cup {BadId}}

\* the id check, the parsing of the query, and Project.findById
getProjectTasks(s) ==
  /\ AcceptRead(s)
  /\ \E in \in getProjectTasksInputs(db), outcome \in StoreOutcomes :
       LET r == ReadRequest("getProjectTasks", in.actor, in.pid, in.query)
       IN  IF ~isValid(in.pid)
           THEN /\ outcome = "ok"
                /\ req' = req
                /\ out' = Fails(r, 400, "400", "none")
           ELSE IF outcome # "ok"
           THEN /\ req' = req
                /\ out' = Fails(r, 500, outcome, "store")
           ELSE IF findById(db, in.pid) = {}
           THEN /\ req' = req
                /\ out' = Fails(r, 500, "404", "none")
           ELSE Proceed(s, [r EXCEPT !.pc = "member_findById"])
  /\ UNCHANGED <<db, txn, nextP, nextM, started>>

\* Project.findById(projectId).select("createdBy") inside isProjectMember
isProjectMember_findById(s) ==
  /\ req[s].pc = "member_findById"
  /\ \E f \in {"none", "findById"} :
       LET result == isProjectMember_creator(db, req[s].pid, req[s].actor, f)
       IN  IF result = "more" THEN Goto(s, "member_findOne")
           ELSE MemberResolved(s, result, f)
  /\ UNCHANGED <<db, txn, nextP, nextM, started>>

\* ProjectMember.findOne({project, users}).select("_id") inside
\* isProjectMember
isProjectMember_findOne(s) ==
  /\ req[s].pc = "member_findOne"
  /\ \E f \in {"none", "findOne"} :
       MemberResolved(s, isProjectMember_row(db, req[s].pid, req[s].actor, f), f)
  /\ UNCHANGED <<db, txn, nextP, nextM, started>>

(***************************************************************************)
(* getProjectTask, getTaskById, getMyTasks (task controller).  Their       *)
(* isProjectMember is the one of utils/helper: it raises before it reads.  *)
(***************************************************************************)
\* the checks all sit inside the try block; f = "store": Project.findById
\* rejected
getProjectTaskChecks(d, actor, projectId, f) ==
  IF ~isValid(projectId) THEN "400"
  ELSE IF f = "store" THEN "StoreFailure"
  ELSE IF findById(d, projectId) = {} THEN "404"
  ELSE IF helper_isProjectMember(d, projectId, actor, "none") = "throw" THEN "ReferenceError"
  ELSE IF ~Truthy(helper_isProjectMember(d, projectId, actor, "none")) THEN "403"
  ELSE "none"

getProjectTask(s) ==
  /\ AcceptRead(s)
  /\ \E in \in GateInputs(db, ProjectParams(db) \cup {BadId}) :
       \E f \in {x \in FirstRead : x = "none" \/ isValid(in.pid)} :
         LET r == ReadRequest("getProjectTask", in.actor, in.pid, in.query)
             e == getProjectTaskChecks(db, in.actor, in.pid, f)
         IN  IF e # "none"
             THEN /\ req' = req
                  /\ out' = Fails(r, 500, e, FailedCall(e))
             ELSE Proceed(s, [r EXCEPT !.pc = "count"])
  /\ UNCHANGED <<db, txn, nextP, nextM, started>>

\* Task.findById(taskId)...lean(): the query of the task.  A task that is
\* not there is not populated.
getTaskById(s) ==
  /\ AcceptRead(s)
  /\ \E actor \in Users, taskId \in TaskIdInputs \cup {3} :
       \E f \in {x \in FirstRead : x = "none" \/ taskId # MalformedTaskId} :
         LET r == [Reading EXCEPT !.op = "getTaskById", !.actor = actor, !.taskId = taskId]
             e == IF taskId = MalformedTaskId THEN "400"
                  ELSE IF f = "store" THEN "StoreFailure"
                  ELSE IF findTask(db, taskId) = {} THEN "404"
                  ELSE "none"
         IN  IF e # "none"
             THEN /\ req' = req
                  /\ out' = Fails(r, IF e = "400" THEN 400 ELSE 500, e, FailedCall(e))
             ELSE Proceed(s, Found(r, <<CHOOSE k \in findTask(db, taskId) : TRUE>>))
  /\ UNCHANGED <<db, txn, nextP, nextM, started>>

\* the populated task: task.project._id of a project that is gone raises a
\* TypeError; then isProjectMember and its gate
getTaskByIdChecks(d, actor, task) ==
  IF task.project = {} THEN "TypeError"
  ELSE LET isMember ==
             helper_isProjectMember(d, (CHOOSE p \in task.project : TRUE).id, actor, "none")
       IN  IF isMember = "throw" THEN "ReferenceError"
           ELSE IF ~Truthy(isMember) THEN "403"
           ELSE "none"

(***************************************************************************)
(* populate: one query for each populated path, sent when the documents    *)
(* have arrived.  The query of "project" reads the projects as they are    *)
(* then: a document whose project is gone gets null, here the empty set.   *)
(* The queries of the other paths read user documents, which no request    *)
(* changes; the model keeps the user's id.  The last query in, a listing   *)
(* answers and getTaskById goes on to its membership check.                *)
(***************************************************************************)
Populate(s) ==
  /\ req[s].pc = "populate"
  /\ \E outcome \in StoreOutcomes :
       LET r == req[s]
           path == Head(r.paths)
           populated ==
             IF path # "project" THEN r.items
             ELSE [i \in 1..Len(r.items) |->
                     [r.items[i] EXCEPT !.project =
                        {[id |-> p.id, name |-> p.name] : p \in findById(db, @)}]]
           e == IF r.op = "getTaskById" THEN getTaskByIdChecks(db, r.actor, populated[1])
                ELSE "none"
       IN  IF outcome # "ok" THEN ReadEnds(s, Fails(r, 500, outcome, "store"))
           ELSE IF Tail(r.paths) # <<>>
           THEN /\ req' = [req EXCEPT ![s].items = populated, ![s].paths = Tail(r.paths)]
                /\ out' = out
           ELSE IF e # "none" THEN ReadEnds(s, Fails(r, 500, e, "none"))
           ELSE IF r.op = "getTaskById"
           THEN ReadEnds(s, [r EXCEPT !.resp = 200, !.items = populated, !.paths = <<>>])
           ELSE ReadEnds(s, Listed(r, r.counted, populated))
  /\ UNCHANGED <<db, txn, nextP, nextM, started>>

\* the membership check runs only for a well-formed projectId
getMyTasksChecks(d, actor, projectId) ==
  IF ~(Given(projectId) /\ isValid(projectId)) THEN "none"
  ELSE IF helper_isProjectMember(d, projectId, actor, "none") = "throw" THEN "ReferenceError"
  ELSE IF ~Truthy(helper_isProjectMember(d, projectId, actor, "none")) THEN "403"
  ELSE "none"

getMyTasksInputs ==
  {[actor |-> "u2", pid |-> NoParam, query |-> q] : q \in QueryInputs}
    \cup {[actor |-> actor, pid |-> pid, query |-> NoQueryParams] :
            actor \in Users, pid \in {NoParam, SeedProject, BadId}}

\* the parsing of the query, the membership check, and Task.countDocuments
getMyTasks(s) ==
  /\ AcceptRead(s)
  /\ \E in \in getMyTasksInputs, outcome \in StoreOutcomes :
       LET r == ReadRequest("getMyTasks", in.actor, in.pid, in.query)
           e == getMyTasksChecks(db, in.actor, in.pid)
       IN  IF e # "none"
           THEN /\ outcome = "ok"
                /\ req' = req
                /\ out' = Fails(r, 500, e, "none")
           ELSE IF outcome # "ok"
           THEN /\ req' = req
                /\ out' = Fails(Counting(db, r), 500, outcome, "store")
           ELSE Proceed(s, Counted(db, Counting(db, r)))
  /\ UNCHANGED <<db, txn, nextP, nextM, started>>

(***************************************************************************)
(* getNotes, getNoteByProjectId (note controller)                          *)
(***************************************************************************)
\* with a projectId the handler evaluates `mongoose`, without one
\* `ProjectMember`; the module binds neither
getNotesChecks(d, actor, projectId) ==
  IF Given(projectId)
  THEN IF "mongoose" \notin NoteBindings THEN "ReferenceError"
       ELSE IF ~isValid(projectId) THEN "400"
       ELSE IF findById(d, projectId) = {} THEN "404"
       ELSE IF helper_isProjectMember(d, projectId, actor, "none") = "throw" THEN "ReferenceError"
       ELSE IF ~Truthy(helper_isProjectMember(d, projectId, actor, "none")) THEN "403"
       ELSE "none"
  ELSE IF "ProjectMember" \notin NoteBindings THEN "ReferenceError"
       ELSE IF \A p \in d.projects :
                 p.createdBy # actor /\ findOne(d, p.id, actor).id = NoRow
            THEN "403"
       ELSE "none"

getNotes(s) ==
  /\ AcceptRead(s)
  /\ \E in \in GateInputs(db, ProjectParams(db) \cup {BadId, NoParam}) :
       LET r == ReadRequest("getNotes", in.actor, in.pid, in.query)
           e == getNotesChecks(db, in.actor, in.pid)
       IN  IF e # "none"
           THEN /\ req' = req
                /\ out' = Fails(r, 500, e, "none")
           ELSE Proceed(s, [r EXCEPT !.pc = "count"])
  /\ UNCHANGED <<db, txn, nextP, nextM, started>>

\* `mongoose` is evaluated by the first statement, outside the try block
getNoteByProjectIdChecks(d, actor, projectId) ==
  IF "mongoose" \notin NoteBindings THEN "ReferenceError"
  ELSE IF ~isValid(projectId) THEN "400"
  ELSE IF findById(d, projectId) = {} THEN "404"
  ELSE IF helper_isProjectMember(d, projectId, actor, "none") = "throw" THEN "ReferenceError"
  ELSE IF ~Truthy(helper_isProjectMember(d, projectId, actor, "none")) THEN "403"
  ELSE "none"

getNoteByProjectId(s) ==
  /\ AcceptRead(s)
  /\ \E in \in GateInputs(db, ProjectParams(db) \cup {BadId}) :
       LET r == ReadRequest("getNoteByProjectId", in.actor, in.pid, in.query)
           e == getNoteByProjectIdChecks(db, in.actor, in.pid)
       IN  IF e # "none"
           THEN /\ req' = req
                /\ out' = Fails(r, IF e = "400" THEN 400 ELSE 500, e, "none")
           ELSE Proceed(s, [r EXCEPT !.pc = "count"])
  /\ UNCHANGED <<db, txn, nextP, nextM, started>>

(***************************************************************************)
(* SpecList: the read requests against a populated store, among the        *)
(* requests that write.                                                    *)
(***************************************************************************)
InitList ==
  /\ db = TeamDb
  /\ txn = [s \in Slots |-> NoTxn]
  /\ req = [s \in Slots |-> Idle]
  /\ out = Idle
  /\ nextP = 2
  /\ nextM = 1
  /\ started = 0

ReadStep(s) ==
  \/ getProjectTasks(s)
  \/ isProjectMember_findById(s)
  \/ isProjectMember_findOne(s)
  \/ Listing_countDocuments(s)
  \/ Listing_find(s)
  \/ Populate(s)
  \/ getProjectTask(s)
  \/ getTaskById(s)
  \/ getMyTasks(s)
  \/ getNotes(s)
  \/ getNoteByProjectId(s)

\* a request that writes is accepted while fewer than MaxWritesWhileListing
\* have been; one that is in flight goes on
WriteStep(s) ==
  /\ started < MaxWritesWhileListing \/ req[s].pc # "idle"
  /\ Step(s)

NextList == Deliver \/ (out = Idle /\ \E s \in Slots : ReadStep(s) \/ WriteStep(s))

SpecList == InitList /\ [][NextList]_vars

(***************************************************************************)
(* Properties.                                                             *)
(***************************************************************************)
Ends(op) == out = Idle /\ out'.op = op

MembersOf(d, projectId) == {m \in d.members : m.project = projectId}
TasksOf(d, projectId) == {k \in d.tasks : k.project = projectId}

\* the Project row and the creator's membership row that the createProject
\* request r writes
ProjectOf(r) == projectData(r.pid, r.target, r.desc, r.actor)
CreatorRowOf(r) ==
  [id |-> r.mrow, project |-> r.pid, users |-> r.actor, role |-> UserRolesEnum.ADMIN]

\* the step discards the writes staged by the createProject request in slot s
\* without committing them
RolledBack(s) ==
  /\ txn[s].insP # {}
  /\ txn'[s].insP = {}
  /\ req'[s].pc # "cp_end"

\* C1: createProject is atomic.  The step in which a createProject request
\* commits adds to the store its Project row (attempted name, createdBy =
\* actor) together with exactly one ProjectMember row for it (users = actor,
\* role = admin) and nothing else; every other step of a createProject
\* request leaves the store as it was, so a request that ends in an error has
\* added neither row.  In the step that discards the staged writes of a
\* request whose Project write was done (a failure between the two writes
\* included) the store holds no Project row with the attempted name and no
\* Project or membership row of the attempt.
C1_CreateProjectAtomic ==
  [][ /\ \A s \in Slots :
           (req[s].op = "createProject" /\ req'[s] # req[s]) =>
             IF req[s].pc = "cp_commit" /\ req'[s].pc = "cp_end"
             THEN /\ ProjectOf(req[s]) \notin db.projects
                  /\ db'.projects = db.projects \cup {ProjectOf(req[s])}
                  /\ db'.members = db.members \cup {CreatorRowOf(req[s])}
                  /\ MembersOf(db', req[s].pid) = {CreatorRowOf(req[s])}
                  /\ db'.tasks = db.tasks /\ db'.notes = db.notes
             ELSE /\ db' = db
                  /\ RolledBack(s) =>
                       /\ ~NameTaken(db', req[s].target)
                       /\ findById(db', req[s].pid) = {}
                       /\ MembersOf(db', req[s].pid) = {}
      /\ Ends("createProject") =>
           /\ out'.resp = 201 <=> out'.pc = "cp_end"
           /\ out'.resp # 201 =>
                /\ db' = db
                /\ findById(db', out'.pid) = {}
                /\ MembersOf(db', out'.pid) = {}
    ]_vars

\* a createProject whose membership write failed after its Project write,
\* about to roll back: the Project row is staged, the membership row is not
C1_Witness ==
  \E s \in Slots :
    /\ req[s].op = "createProject"
    /\ req[s].pc = "cp_abort"
    /\ req[s].err = "StoreFailure"
    /\ txn[s].insP = {ProjectOf(req[s])}
    /\ txn[s].insM = {}
    /\ ~NameTaken(db, req[s].target)

\* C2 (as claimed): deleteProject is all-or-nothing.  The step in which a
\* deleteProject request answers 200 leaves no Project, ProjectMember or Task
\* row of that project in the store and removes nothing else; every other
\* step of a deleteProject request, a failure after any of the three deletes
\* and the rollback included, leaves the store exactly as it was.
C2_DeleteProjectAllOrNothing ==
  [][ /\ (Ends("deleteProject") /\ out'.resp = 200) =>
           /\ findById(db', out'.pid) = {}
           /\ MembersOf(db', out'.pid) = {}
           /\ TasksOf(db', out'.pid) = {}
           /\ db'.projects = {p \in db.projects : p.id # out'.pid}
           /\ db'.members = {m \in db.members : m.project # out'.pid}
           /\ db'.tasks = {k \in db.tasks : k.project # out'.pid}
           /\ db'.notes = db.notes
      /\ ( /\ \/ Ends("deleteProject")
              \/ \E s \in Slots : req[s].op = "deleteProject" /\ req'[s] # req[s]
           /\ out'.resp # 200 ) => db' = db
    ]_vars

\* the positions of a createProject request between its Project write and
\* the end of its transaction, and of a deleteProject request between its
\* first delete and the end of its transaction
CreateInProgress == {"cp_member", "cp_read", "cp_commit", "cp_abort"}
DeleteInProgress == {"dp_delM", "dp_delT", "dp_commit", "dp_abort"}

\* C3: no request observes the partial state of createProject or
\* deleteProject.  While a createProject is between its Project write and the
\* end of its transaction, the store every other request reads holds neither
\* the Project row nor a membership row for it; while a deleteProject is
\* between its first delete and the end of its transaction, the Project row
\* and the ProjectMember and Task rows it has deleted are all still in the
\* store the other requests read.
C3_NoPartialStateObserved ==
  \A s \in Slots :
    /\ req[s].pc \in CreateInProgress =>
         /\ findById(db, req[s].pid) = {}
         /\ MembersOf(db, req[s].pid) = {}
    /\ req[s].pc \in DeleteInProgress =>
         /\ txn[s].delP \subseteq {p.id : p \in db.projects}
         /\ txn[s].delM \subseteq {m.id : m \in db.members}
         /\ txn[s].delT \subseteq {k.id : k \in db.tasks}

\* a createProject that has written its Project row but not yet the
\* membership row, while another request is in flight
C3_Witness ==
  \E s \in Slots, t \in Slots :
    /\ s # t
    /\ req[s].pc = "cp_member"
    /\ txn[s].insP # {}
    /\ req[t].pc # "idle"

\* C4 (as claimed): after a committed deleteProject no ProjectMember row and
\* no Task row references the deleted project, under every interleaving with
\* addMemberToProject and createTask: every row references a Project row
\* that exists.
C4_NoOrphanAfterDelete ==
  /\ \A m \in db.members : findById(db, m.project) # {}
  /\ \A k \in db.tasks : findById(db, k.project) # {}

WellFormedProjects == ProjIds \cup {SeedProject}

\* C5: for every existing project the creator passes isMember and isAdmin,
\* whatever membership rows exist: with the rows as they are (the creator's
\* own row may have been demoted) and with no rows at all.
C5_CreatorAlwaysMemberAndAdmin ==
  \A p \in db.projects :
    \A d \in {db, [db EXCEPT !.members = {}]} :
      /\ isProjectMember(d, p.id, p.createdBy, "none") = "true"
      /\ isProjectAdmin(d, p.id, p.createdBy, "none") = "true"

\* a project whose creator's membership row has been demoted to member
C5_Witness ==
  \E p \in db.projects : \E m \in db.members :
    /\ m.project = p.id
    /\ m.users = p.createdBy
    /\ m.role = UserRolesEnum.MEMBER

\* what the resolver contract says isMember is
MemberBySpec(d, projectId, userId) ==
  /\ findById(d, projectId) # {}
  /\ \/ \E p \in findById(d, projectId) : p.createdBy = userId
     \/ \E m \in d.members : m.project = projectId /\ m.users = userId

\* what the resolver contract says isAdmin is
AdminBySpec(d, projectId, userId) ==
  /\ findById(d, projectId) # {}
  /\ \/ \E p \in findById(d, projectId) : p.createdBy = userId
     \/ \E m \in d.members :
          m.project = projectId /\ m.users = userId /\ m.role = UserRolesEnum.ADMIN

\* C6 (as claimed): for well-formed ids, each copy of isMember returns true
\* exactly when the project exists and the user is its creator or has a
\* membership row, and returns false when the project does not exist.
C6_IsMemberExact ==
  \A projectId \in WellFormedProjects, userId \in Users :
    \A r \in {isProjectMember(db, projectId, userId, "none"),
              helper_isProjectMember(db, projectId, userId, "none")} :
      /\ (r = "true") <=> MemberBySpec(db, projectId, userId)
      /\ findById(db, projectId) = {} => r = "false"

\* C7: for well-formed ids, isAdmin (project controller) returns true
\* exactly when the project exists and the user is its creator or has a
\* membership row whose role is admin; a row with role project_admin or
\* member does not make it true.
C7_IsAdminExact ==
  \A projectId \in WellFormedProjects, userId \in Users :
    (isProjectAdmin(db, projectId, userId, "none") = "true") <=>
      /\ findById(db, projectId) # {}
      /\ \/ \E p \in findById(db, projectId) : p.createdBy = userId
         \/ \E m \in db.members :
              m.project = projectId /\ m.users = userId /\ m.role = UserRolesEnum.ADMIN

\* a user who holds a project_admin row, is not the creator, and is not admin
C7_Witness ==
  \E m \in db.members :
    /\ m.role = UserRolesEnum.PROJECT_ADMIN
    /\ \E p \in findById(db, m.project) : p.createdBy # m.users
    /\ isProjectAdmin(db, m.project, m.users, "none") # "true"

\* C8 (as claimed): neither resolver, in either copy, throws; for a
\* malformed id, and when a lookup it performs fails, it returns false.
C8_ResolversNeverThrow ==
  \A projectId \in ProjInputs, userId \in UserInputs, f \in LookupFailures :
    \A r \in {isProjectMember(db, projectId, userId, f),
              isProjectAdmin(db, projectId, userId, f),
              helper_isProjectMember(db, projectId, userId, f),
              helper_isProjectAdmin(db, projectId, userId, f)} :
      /\ r # "throw"
      /\ (~isValid(projectId) \/ ~isValid(userId) \/ f = "findById") => r = "false"
      /\ ( /\ f = "findOne"
           /\ findById(db, projectId) # {}
           /\ \A p \in findById(db, projectId) : p.createdBy # userId ) => r = "false"

\* the target of the removeMember request r is the project's creator and
\* holds a membership row
TargetsCreatorRow(d, r) ==
  /\ \E p \in findById(d, r.pid) : p.createdBy = r.target
  /\ findOne(d, r.pid, r.target).id # NoRow

ConflictStatus == {400, 409}

\* C9 (as claimed): removeMember targeting the creator's membership row
\* fails with a Conflict error, whoever the actor is, and the row is still
\* there afterwards.
C9_CreatorRemovalIsConflict ==
  (out.op = "removeMember" /\ TargetsCreatorRow(db, out)) =>
    /\ out.resp \in ConflictStatus
    /\ \E m \in db.members : m.project = out.pid /\ m.users = out.target

\* C10: removeMember deletes a membership row only if the actor is the
\* target or isAdmin holds for the actor; for an actor who is neither, the
\* call is rejected and the membership rows are unchanged.
C10_RemoveMemberAuthorized ==
  [][ Ends("removeMember") =>
        LET authorized ==
              \/ out'.actor = out'.target
              \/ Truthy(isProjectAdmin(db, out'.pid, out'.actor, "none"))
        IN  /\ db'.members # db.members => authorized
            /\ ~authorized => (out'.resp # 200 /\ db'.members = db.members)
    ]_vars

\* a removeMember by an actor who is neither the target nor an admin, on a
\* target that holds a row and is not the creator: rejected, row still there
C10_Witness ==
  /\ out.op = "removeMember"
  /\ out.err = "TypeError"
  /\ out.resp = 500
  /\ out.actor # out.target
  /\ ~Truthy(isProjectAdmin(db, out.pid, out.actor, "none"))
  /\ findOne(db, out.pid, out.target).id # NoRow

\* C11 (as claimed): removeMember succeeds whenever the target holds a
\* membership row, is not the project's creator, and the actor is the target
\* or an admin; it answers 200, exactly the target's row is removed, and
\* isMember is false for the target afterwards.
C11_RemoveMemberSucceeds ==
  [][ ( /\ Ends("removeMember")
        /\ out'.fail = "none"
        /\ findOne(db, out'.pid, out'.target).id # NoRow
        /\ \A p \in findById(db, out'.pid) : p.createdBy # out'.target
        /\ findById(db, out'.pid) # {}
        /\ \/ out'.actor = out'.target
           \/ Truthy(isProjectAdmin(db, out'.pid, out'.actor, "none")) ) =>
        /\ out'.resp = 200
        /\ db'.members = db.members \ {findOne(db, out'.pid, out'.target)}
        /\ isProjectMember(db', out'.pid, out'.target, "none") = "false"
    ]_vars

\* C12 (as claimed): at most one ProjectMember row per (project, user) pair,
\* in every reachable state.
C12_OneRowPerPair ==
  \A m1 \in db.members, m2 \in db.members :
    (m1.project = m2.project /\ m1.users = m2.users) => m1.id = m2.id

\* C13 (as claimed): addMember by an admin actor for an existing user.  When
\* the target holds no row, exactly one row (project, target) is added, with
\* the given role if that is a known role and with member if the role is
\* omitted or unknown; when the target already holds a row the call is
\* rejected and no row is added.
C13_AddMemberCreatesRow ==
  [][ ( /\ Ends("addMember")
        /\ out'.fail = "none"
        /\ out'.err # "StoreFailure"
        /\ findById(db, out'.pid) # {}
        /\ Truthy(isProjectAdmin(db, out'.pid, out'.actor, "none"))
        /\ out'.target \in Users ) =>
        IF findOne(db, out'.pid, out'.target).id = NoRow
        THEN \E m \in db'.members :
               /\ m \notin db.members
               /\ db'.members = db.members \cup {m}
               /\ m.project = out'.pid
               /\ m.users = out'.target
               /\ m.role = IF out'.role \in AvailableUserRoles
                           THEN out'.role ELSE UserRolesEnum.MEMBER
        ELSE out'.resp \notin {200, 201} /\ db'.members = db.members
    ]_vars

\* the positions at which a request of the project controller awaits
\* isProjectAdmin
AdminPcs == {"admin_findById", "admin_findOne"}

\* C14: updateMemberRole changes a role only for an admin actor and a known
\* role.  A request with an unknown role is rejected at once; a request gets
\* past the isAdmin gate to its write only in a step in which isAdmin holds
\* for the actor, and a request that isAdmin turns away ends there; no step
\* before the write changes the store; the document the request saves is the
\* target's membership row, read with the role it had in the store; when the
\* request answers 200, either the step sets the role of exactly that row to
\* the new role and changes nothing else, or the row already had the new
\* role when the request read it and the step writes nothing; when it is
\* rejected nothing changes; and no other operation changes the role of a
\* row.
C14_UpdateRoleGated ==
  [][ /\ \A s \in Slots :
           /\ req'[s].op = "updateMemberRole" => req'[s].role \in AvailableUserRoles
           /\ (req[s].op = "updateMemberRole" /\ req[s].pc \in AdminPcs
                 /\ req'[s].pc = "ur_save") =>
                Truthy(isProjectAdmin(db, req[s].pid, req[s].actor, "none"))
           /\ (req[s].op = "updateMemberRole" /\ req[s].pc # "ur_save"
                 /\ req'[s].pc = "ur_save") => req[s].pc \in AdminPcs
           /\ (req[s].op = "updateMemberRole" /\ req[s].pc # "ur_save"
                 /\ req'[s] # req[s]) => db' = db
           /\ (req[s].pc = "ur_member" /\ req'[s].pc = "admin_findById") =>
                \E m \in db.members :
                  /\ m.id = req'[s].mrow
                  /\ m.project = req[s].pid
                  /\ m.users = req[s].target
                  /\ m.role = req'[s].seen
      /\ Ends("updateMemberRole") =>
           IF out'.resp = 200
           THEN \E m \in db.members :
                  /\ out'.pc = "ur_save"
                  /\ m.id = out'.mrow
                  /\ m.project = out'.pid
                  /\ m.users = out'.target
                  /\ out'.role \in AvailableUserRoles
                  /\ IF isModified(out'.seen, out'.role)
                     THEN db' = [db EXCEPT !.members =
                                   (@ \ {m}) \cup {[m EXCEPT !.role = out'.role]}]
                     ELSE db' = db /\ out'.seen = out'.role
           ELSE db' = db
      /\ (Ends("updateMemberRole") /\ out'.role \notin AvailableUserRoles) =>
           (out'.pc = "idle" /\ out'.resp = 400)
      /\ (Ends("updateMemberRole") /\ out'.pc \in AdminPcs) =>
           (out'.resp # 200 /\ ~Truthy(isProjectAdmin(db, out'.pid, out'.actor, out'.fail)))
      /\ (\E m \in db.members, n \in db'.members : m.id = n.id /\ m.role # n.role) =>
           (Ends("updateMemberRole") /\ out'.resp = 200)
    ]_vars

\* an updateMemberRole by an admin on another user's row that answered 200,
\* the row now carrying the new role
C14_Witness ==
  /\ out.op = "updateMemberRole"
  /\ out.resp = 200
  /\ out.actor # out.target
  /\ \E m \in db.members :
       /\ m.id = out.mrow
       /\ m.users = out.target
       /\ m.role = out.role
       /\ m.role # UserRolesEnum.MEMBER

RejectionStatus == {400, 403, 422}

\* the body the finished task request r sent
BodyOf(r) ==
  [title |-> r.role, description |-> r.desc, status |-> r.status,
   assignedTo |-> r.target, dueDate |-> r.due, priority |-> r.prio]

\* C15 (as claimed): createTask by a member, with a valid body, whose
\* assignedTo is an existing user who is not a member of the project, is
\* rejected with a validation or forbidden error and writes no Task row.
C15_NonMemberAssigneeRejected ==
  [][ ( /\ Ends("createTask")
        /\ out'.fail = "none"
        /\ out'.err \notin {"400", "422"}
        /\ findById(db, out'.pid) # {}
        /\ MemberBySpec(db, out'.pid, out'.actor)
        /\ out'.target \in Users
        /\ ~MemberBySpec(db, out'.pid, out'.target) ) =>
        /\ out'.resp \in RejectionStatus
        /\ db'.tasks = db.tasks
    ]_vars

\* C16: every Task row a createTask writes has assignedBy = the actor, the
\* actor being a member of the project and the assignee, if any, being a
\* member of the project in the state it is written in; a createTask by an
\* actor who is not a member of the project writes no Task row.
C16_TaskRowsByMembers ==
  [][ Ends("createTask") =>
        /\ \A k \in db'.tasks \ db.tasks :
             /\ k.assignedBy = out'.actor
             /\ k.project = out'.pid
             /\ MemberBySpec(db, out'.pid, out'.actor)
             /\ k.assignedTo # NoAssignee => MemberBySpec(db, out'.pid, k.assignedTo)
        /\ ~MemberBySpec(db, out'.pid, out'.actor) =>
             (db'.tasks = db.tasks /\ out'.resp # 201)
    ]_vars

\* a createTask with a valid body on an existing project by an actor who is
\* not a member of it: no 201, and no Task row of that actor in the project
C16_Witness ==
  /\ out.op = "createTask"
  /\ out.err \notin {"400", "422", "StoreFailure"}
  /\ createTaskValidator(BodyOf(out))
  /\ findById(db, out.pid) # {}
  /\ ~MemberBySpec(db, out.pid, out.actor)
  /\ out.resp # 201
  /\ \A k \in TasksOf(db, out.pid) : k.assignedBy # out.actor

ProjectScopedOps ==
  {"deleteProject", "addMember", "removeMember", "updateMemberRole", "createTask"}

\* the finished request r met no failure of the store and no validation
\* error
AnsweredByChecks(r) == r.fail = "none" /\ r.resp \notin {400, 422}

\* r referenced a project or a task that does not exist
NotFoundCase(d, r) ==
  /\ AnsweredByChecks(r)
  /\ r.pc = "idle"
  /\ \/ r.op \in ProjectScopedOps /\ isValid(r.pid) /\ findById(d, r.pid) = {}
     \/ r.op = "deleteTask" /\ r.mrow # MalformedTaskId /\ findTask(d, r.mrow) = {}

\* r's actor failed the isAdmin gate of an existing project
ForbiddenCase(d, r) ==
  /\ AnsweredByChecks(r)
  /\ r.pc \in AdminPcs
  /\ r.op \in {"deleteProject", "addMember", "updateMemberRole"}
  /\ findById(d, r.pid) # {}
  /\ ~Truthy(isProjectAdmin(d, r.pid, r.actor, "none"))

\* C17 (as claimed): a project-scoped operation answers NotFound (404) when
\* the project or task it references does not exist and Forbidden (403)
\* when the actor fails the isAdmin gate; neither is answered with a 5xx.
C17_ErrorKinds ==
  /\ NotFoundCase(db, out) => out.resp = 404
  /\ ForbiddenCase(db, out) => out.resp = 403

\* C18 (as claimed): the scenario, step by step.  After a createProject
\* answers 201 the creator is member and admin; the creator's addMember of
\* another user with role member succeeds, after which that user is a member
\* and not an admin; a deleteProject by a user holding a member row is
\* answered Forbidden and the project still exists; after a deleteProject
\* answers 200 the actor is no longer a member and no Task of the project
\* is left.
C18_Scenario ==
  [][ /\ (Ends("createProject") /\ out'.resp = 201) =>
           /\ isProjectMember(db', out'.pid, out'.actor, "none") = "true"
           /\ isProjectAdmin(db', out'.pid, out'.actor, "none") = "true"
      /\ ( /\ Ends("addMember")
           /\ out'.fail = "none"
           /\ out'.err # "StoreFailure"
           /\ \E p \in findById(db, out'.pid) : p.createdBy = out'.actor
           /\ out'.target \in Users \ {out'.actor}
           /\ findOne(db, out'.pid, out'.target).id = NoRow
           /\ out'.role = UserRolesEnum.MEMBER ) =>
           /\ out'.resp = 201
           /\ isProjectMember(db', out'.pid, out'.target, "none") = "true"
           /\ isProjectAdmin(db', out'.pid, out'.target, "none") # "true"
      /\ ( /\ Ends("deleteProject")
           /\ out'.fail = "none"
           /\ out'.pc \in AdminPcs
           /\ \A p \in findById(db, out'.pid) : p.createdBy # out'.actor
           /\ findOne(db, out'.pid, out'.actor).role = UserRolesEnum.MEMBER ) =>
           /\ out'.resp = 403
           /\ findById(db', out'.pid) # {}
      /\ (Ends("deleteProject") /\ out'.resp = 200) =>
           /\ isProjectMember(db', out'.pid, out'.actor, "none") = "false"
           /\ TasksOf(db', out'.pid) = {}
    ]_vars

\* C19 (as claimed): deleteTask on an existing task deletes exactly that
\* Task row when the actor is the task's creator or an admin of its project,
\* and is rejected with the Task row unchanged for any other actor.
C19_DeleteTaskGated ==
  [][ ( /\ Ends("deleteTask")
        /\ out'.fail = "none"
        /\ findTask(db, out'.mrow) # {} ) =>
        LET task == CHOOSE k \in findTask(db, out'.mrow) : TRUE
            allowed ==
              \/ task.assignedBy = out'.actor
              \/ Truthy(isProjectAdmin(db, task.project, out'.actor, "none"))
        IN  IF allowed
            THEN out'.resp = 200 /\ db'.tasks = db.tasks \ {task}
            ELSE out'.resp # 200 /\ db' = db
    ]_vars

StateChangingOps ==
  {"createProject", "updateProject", "deleteProject", "addMember", "removeMember",
   "updateMemberRole", "createTask", "updateTask", "deleteTask",
   "createNote", "updateNote", "deleteNote"}

\* the actor of request r fails the isMember / isAdmin requirement of its
\* operation in store d
AuthFails(d, r) ==
  \/ /\ r.op \in {"updateProject", "deleteProject", "addMember", "updateMemberRole"}
     /\ findById(d, r.pid) # {}
     /\ ~Truthy(isProjectAdmin(d, r.pid, r.actor, "none"))
  \/ /\ r.op \in {"createTask", "createNote"}
     /\ findById(d, r.pid) # {}
     /\ ~MemberBySpec(d, r.pid, r.actor)
  \/ /\ r.op = "removeMember"
     /\ findById(d, r.pid) # {}
     /\ findOne(d, r.pid, r.target).id # NoRow
     /\ r.actor # r.target
     /\ ~Truthy(isProjectAdmin(d, r.pid, r.actor, "none"))
  \/ /\ r.op = "deleteTask"
     /\ \E k \in findTask(d, r.mrow) :
          /\ k.assignedBy # r.actor
          /\ ~Truthy(isProjectAdmin(d, k.project, r.actor, "none"))
  \/ /\ r.op = "updateTask"
     /\ \E k \in findTask(d, r.mrow) : ~MemberBySpec(d, k.project, r.actor)
  \/ /\ r.op \in {"updateNote", "deleteNote"}
     /\ \E n \in findNote(d, r.target) :
          /\ n.createdBy # r.actor
          /\ ~Truthy(isProjectAdmin(d, n.project, r.actor, "none"))

\* the input of request r fails the validation of its operation: the
\* route's validator or the handler's own
InvalidInput(r) ==
  \/ r.op = "createProject" /\ ~projectValidator(r.target)
  \/ r.op = "updateProject" /\ (~isValid(r.pid) \/ ~projectValidator(r.target))
  \/ r.op = "deleteProject" /\ ~isValid(r.pid)
  \/ r.op = "addMember" /\ (~isValid(r.pid) \/ r.target = "")
  \/ r.op = "removeMember" /\ (~isValid(r.pid) \/ ~isValid(r.target))
  \/ r.op = "updateMemberRole" /\
       (~isValid(r.pid) \/ ~isValid(r.target) \/ r.role \notin AvailableUserRoles)
  \/ r.op = "createTask" /\ (~isValid(r.pid) \/ ~createTaskValidator(BodyOf(r)))
  \/ r.op = "updateTask" /\ (r.mrow = MalformedTaskId \/ ~createTaskValidator(BodyOf(r)))
  \/ r.op = "deleteTask" /\ r.mrow = MalformedTaskId
  \/ r.op = "createNote" /\ (~isValid(r.pid) \/ ~noteValidator(r.target))
  \/ r.op = "updateNote" /\ (~isValid(r.target) \/ ~noteValidator(r.role))
  \/ r.op = "deleteNote" /\ ~isValid(r.target)

\* the positions a request of the project controller reaches only through
\* its isAdmin gate
PastGate ==
  {"dp_session", "dp_delP", "dp_delM", "dp_delT", "dp_commit", "dp_abort",
   "up_write", "up_populate", "am_user", "am_existing", "am_create", "ur_save"}

\* the positions of a request of the project controller that has still to
\* pass its isAdmin gate
BeforeGate == AdminPcs \cup {"ur_member"}

\* C20: a state-changing operation whose actor fails the required isMember /
\* isAdmin check, or whose input fails validation, performs no write.  No
\* request whose input fails validation gets in flight; a request gets past
\* its isAdmin gate only in a step in which the actor passes it; no step of a
\* request that is not past its gate changes the store; and the step in which
\* a request is answered at or before its checks, its actor failing them or
\* its input being invalid, leaves all four collections unchanged and the
\* answer is not a success.
C20_NoWriteOnRejection ==
  [][ /\ \A s \in Slots :
           /\ req'[s].op # "none" => ~InvalidInput(req'[s])
           /\ (req[s].pc \in AdminPcs /\ req'[s].pc \in PastGate) =>
                ~AuthFails(db, req[s])
           /\ (req[s].pc \notin PastGate /\ req'[s].pc \in PastGate) =>
                req[s].pc \in AdminPcs
           /\ (req[s].pc \in BeforeGate /\ req'[s] # req[s]) => db' = db
      /\ \A op \in StateChangingOps :
           ( /\ Ends(op)
             /\ out'.pc \notin PastGate
             /\ AuthFails(db, out') \/ InvalidInput(out') ) =>
             /\ db' = db
             /\ out'.resp \notin {200, 201}
    ]_vars

\* an updateProject with a new name by a user who is not an admin of the
\* existing project: turned away at the gate, the project keeps its name
C20_Witness ==
  /\ out.op = "updateProject"
  /\ out.fail = "none"
  /\ out.pc \in AdminPcs
  /\ out.target # ""
  /\ AuthFails(db, out)
  /\ out.resp \notin {200, 201}
  /\ \A p \in findById(db, out.pid) : p.name # out.target

(***************************************************************************)
(* Failures of the store, sessions, and the Project rows.                  *)
(***************************************************************************)
ClientError == {400, 409, 422}
ServerError == {500}

\* C21: createProject with the name of an existing project ends in a client
\* (4xx) error, every other store failure of createProject ends in the server
\* (5xx) error, and in both cases no Project or ProjectMember row is added.
\* The Project write of a request whose name a project of the store holds
\* raises the duplicate key error unless the call itself fails; a request
\* that ends with the duplicate key error answers 4xx, one that ends with a
\* store failure, a write conflict or a failed rollback answers 5xx, and
\* neither adds a row.
C21_DuplicateNameIsConflict ==
  [][ /\ \A s \in Slots :
           (req[s].pc = "cp_create" /\ req'[s] # req[s]
              /\ NameTaken(db, req[s].target)) =>
             /\ req'[s].pc = "cp_abort"
             /\ req'[s].err \in {"11000", "StoreFailure"}
             /\ req'[s].fail = "none" => req'[s].err = "11000"
      /\ Ends("createProject") =>
           /\ out'.err = "11000" =>
                /\ out'.resp \in ClientError
                /\ out'.pid = ""
                /\ db' = db
           /\ out'.err \in {"StoreFailure", "WriteConflict", "MongoTransactionError"} =>
                /\ out'.resp \in ServerError
                /\ findById(db', out'.pid) = {}
                /\ MembersOf(db', out'.pid) = {}
                /\ db' = db
    ]_vars

C21_Witness ==
  /\ out.op = "createProject" /\ out.err = "11000" /\ out.resp = 400
  /\ Cardinality({p \in db.projects : p.name = out.target}) = 1
  /\ Cardinality(db.projects) = 1
  /\ MembersOf(db, SeedProject) = SeedDb.members

MultiEntityOps == {"createProject", "deleteProject", "deleteTask"}
StoreErrors == {"StoreFailure", "WriteConflict", "MongoTransactionError"}

\* C22: when a store or transaction failure ends createProject, deleteProject
\* or deleteTask, none of the operation's writes is in the store and the
\* caller receives the storage error: never a success, never no response.
C22_StoreFailureSurfaces ==
  [][(\E op \in MultiEntityOps : Ends(op)) /\ out'.err \in StoreErrors
       => /\ out'.resp \in ServerError
          /\ db' = db]_vars

\* C23: a request that has returned leaves no session open: the session it
\* started was committed or aborted and then ended.
C23_SessionsEnded ==
  out.op # "none" => out.sess \in {"none", "ended"}

\* C24: in every reachable state no two Project rows have the same name,
\* whether createProject and updateProject run one after the other or
\* concurrently.
C24_ProjectNamesUnique ==
  \A p \in db.projects, q \in db.projects : p.name = q.name => p.id = q.id

C24_Witness ==
  /\ out.op = "updateProject" /\ out.err = "11000" /\ out.resp = 400
  /\ Cardinality(db.projects) = 2
  /\ \E p \in db.projects : p.id # out.pid /\ p.name = out.target
  /\ \E p \in db.projects : p.id = out.pid /\ p.name # out.target

\* C25: no step changes the createdBy of a project that exists before and
\* after it.
C25_CreatedByImmutable ==
  [][\A p \in db.projects, q \in db'.projects :
        p.id = q.id => p.createdBy = q.createdBy]_vars

C25_Witness ==
  /\ out.op = "updateProject" /\ out.resp = 200 /\ out.target # ""
  /\ \E p \in db.projects :
        /\ p.id = out.pid /\ p.id = SeedProject
        /\ p.name = out.target /\ p.name # "Alpha"
        /\ p.createdBy = "u1"

(***************************************************************************)
(* Listings.                                                               *)
(***************************************************************************)
ListingOps ==
  {"getProjectTasks", "getProjectTask", "getMyTasks", "getNotes", "getNoteByProjectId"}

ItemsOf(r) == {r.items[i] : i \in 1..Len(r.items)}

\* the listing in slot s receives its count in this step
CountArrives(s) ==
  req'[s].op \in ListingOps /\ req'[s].pc = "find" /\ req[s].pc # "find"

\* the listing in slot s receives the rows of its page in this step
RowsArrive(s) ==
  /\ req[s].op \in ListingOps /\ req[s].pc = "find"
  /\ \/ req'[s].pc = "populate"
     \/ req'[s].pc = "idle" /\ out'.op = req[s].op /\ out'.resp = 200

\* the rows that arrive
RowsFound(s) == IF req'[s].pc = "populate" THEN req'[s].items ELSE out'.items

\* the listing in slot s answers 200 in this step
PageArrives(s) ==
  /\ req[s].op \in ListingOps /\ req[s].pc \in {"find", "populate"} /\ req'[s].pc = "idle"
  /\ out'.op = req[s].op /\ out'.resp = 200

\* the ids of the documents of a page, in their order
IdsOf(items) == [i \in 1..Len(items) |-> items[i].id]

\* the rows of the store that match the filter of the listing r
MatchingRows(d, r) == {k \in CollectionOf(d, r.op) : Matches(k, r.filter)}

\* C26 (as claimed): the count a listing receives is the number N of rows
\* that match its filter, and its answer has total = N and pages =
\* ceil(N / L) for the effective limit L; a page beyond pages is empty.
C26_PaginationSummary ==
  [][\A s \in Slots :
       /\ CountArrives(s) =>
            req'[s].counted = Cardinality(MatchingRows(db, req'[s]))
       /\ PageArrives(s) =>
            /\ out'.pagination.total = req[s].counted
            /\ out'.pagination.pages = Ceil(req[s].counted, out'.pagination.limit)
            /\ out'.pagination.page > out'.pagination.pages => out'.items = <<>>
    ]_vars

\* C27: the total of a listing answer is the count of the rows that matched,
\* when the count was taken, the very filter that selects the returned page:
\* the filter the count query is sent with is the one the request built, the
\* rows the page query returns are rows of the store that match that same
\* filter when it runs, and the answer carries that count as its total and
\* those rows as its items.
C27_TotalUsesPageFilter ==
  [][\A s \in Slots :
       /\ CountArrives(s) =>
            /\ req'[s].filter = FilterOf(db, req'[s])
            /\ req'[s].counted =
                 Cardinality({k \in CollectionOf(db, req'[s].op) : Matches(k, req'[s].filter)})
       /\ RowsArrive(s) =>
            \A i \in 1..Len(RowsFound(s)) :
              /\ RowsFound(s)[i] \in CollectionOf(db, req[s].op)
              /\ Matches(RowsFound(s)[i], req[s].filter)
       /\ (req[s].op \in ListingOps /\ req[s].pc \in {"find", "populate"}
             /\ req'[s].pc = "populate") =>
            /\ req'[s].filter = req[s].filter
            /\ req'[s].counted = req[s].counted
            /\ req[s].pc = "populate" => IdsOf(req'[s].items) = IdsOf(req[s].items)
       /\ PageArrives(s) =>
            /\ out'.filter = req[s].filter
            /\ out'.pagination.total = req[s].counted
            /\ req[s].pc = "populate" => IdsOf(out'.items) = IdsOf(req[s].items)
    ]_vars

C27_Witness ==
  /\ out.op \in ListingOps /\ out.resp = 200
  /\ out.filter.status # AnyValue
  /\ out.pagination.total > 0
  /\ out.pagination.total = Cardinality(MatchingRows(db, out))
  /\ out.pagination.total < Cardinality({k \in db.tasks : k.project \in out.filter.project})
  /\ out.items # <<>>

\* the stores' failures a listing can meet
ListingFailures == StoreOutcomes \cup PopulateOutcomes \cup {"BadValue"}

\* the actor is entitled to the listing asked for
Entitled(d, r) ==
  IF Given(r.pid) THEN isValid(r.pid) /\ MemberBySpec(d, r.pid, r.actor)
  ELSE r.op = "getMyTasks" \/ \E p \in d.projects : MemberBySpec(d, p.id, r.actor)

SortAllowList == allowedSortBy \cup allowedSortFields
DefaultSortField == "createdAt"

\* C28 (as claimed): a listing asked to sort by a field outside the
\* allow-list, by an actor entitled to it and with no store call failing, is
\* answered sorted by the default field, and the sort field of every query
\* sent to the store is in the allow-list.
C28_SortFieldFallsBack ==
  /\ (out.op \in ListingOps /\ out.sort = "__proto__" /\ Entitled(db, out)
        /\ out.fail = "none" /\ out.err \notin ListingFailures \ {"ok"})
       => out.resp = 200 /\ out.sent.sortField = DefaultSortField
  /\ (out.op \in ListingOps /\ out.sent # NoQuery)
       => out.sent.sortField \in SortAllowList

\* C29 (as claimed): whatever page and limit the caller sends, the query a
\* listing builds has page >= 1, limit >= 1 and skip >= 0 (seen on the
\* listings in which no store call failed).
C29_PageAndLimitCoerced ==
  (out.op \in ListingOps /\ out.sent # NoQuery /\ out.fail = "none")
    => /\ out.sent.page >= 1
       /\ out.sent.limit >= 1
       /\ out.sent.skip >= 0

ProjectReads ==
  {"getProjectTasks", "getProjectTask", "getTaskById", "getNoteByProjectId", "getNotes"}

\* C30: every task or note a project read returns belongs to a project of
\* which the actor is the creator or a member when the answer is sent.
C30_ReadsOnlyForMembers ==
  out.op \in ProjectReads
    => \A k \in ItemsOf(out) : MemberBySpec(db, k.project, out.actor)

C30_Witness ==
  /\ out.op = "getProjectTasks" /\ out.resp = 200 /\ out.items # <<>>
  /\ \A p \in findById(db, out.pid) : p.createdBy # out.actor
  /\ findOne(db, out.pid, out.actor).id # NoRow
  /\ \E k \in db.tasks : ~MemberBySpec(db, k.project, out.actor)

\* C31: a createNote adds a Note row only for an actor who is a member of the
\* project, and the row's createdBy is the actor; an updateNote or deleteNote
\* changes or removes only the note it names, and only when the actor is the
\* note's creator or an admin of the note's project; otherwise the notes are
\* as they were.
C31_NotesGated ==
  [][ /\ Ends("createNote") =>
           /\ db.notes \subseteq db'.notes
           /\ \A n \in db'.notes \ db.notes :
                /\ n.createdBy = out'.actor
                /\ n.project = out'.pid
                /\ MemberBySpec(db, out'.pid, out'.actor)
      /\ (Ends("updateNote") \/ Ends("deleteNote")) =>
           \A n \in db.notes \ db'.notes :
             /\ n.id = out'.target
             /\ n.createdBy = out'.actor \/ AdminBySpec(db, n.project, out'.actor)
    ]_vars

\* a deleteNote of an existing note of an existing project by a user who is
\* neither its creator nor an admin of the project: the note is still there
C31_Witness ==
  /\ out.op = "deleteNote"
  /\ \E n \in db.notes :
       /\ n.id = out.target
       /\ findById(db, n.project) # {}
       /\ n.createdBy # out.actor
       /\ ~AdminBySpec(db, n.project, out.actor)
  /\ out.resp # 200

\* C32: an updateTask changes a task only when the actor is a member of the
\* task's project and is the task's creator, its assignee or an admin of the
\* project, and only when a new assignee named by the update is a member of
\* the task's project in that state; otherwise the tasks are as they were.
C32_UpdateTaskGated ==
  [][ (Ends("updateTask") /\ db'.tasks # db.tasks) =>
        \E k \in db.tasks :
          /\ k.id = out'.mrow
          /\ db.tasks \ {k} \subseteq db'.tasks
          /\ MemberBySpec(db, k.project, out'.actor)
          /\ \/ k.assignedBy = out'.actor
             \/ k.assignedTo = out'.actor
             \/ AdminBySpec(db, k.project, out'.actor)
          /\ (Present(out'.target) /\ out'.target # k.assignedTo) =>
               MemberBySpec(db, k.project, out'.target)
    ]_vars

\* an updateTask, with a valid body, of an existing task of an existing project by
\* a user who is not a member of the project: not a success, and the task
\* is as it was seeded
C32_Witness ==
  /\ out.op = "updateTask"
  /\ createTaskValidator(BodyOf(out))
  /\ out.fail = "none"
  /\ \E k \in db.tasks :
       /\ k.id = out.mrow
       /\ findById(db, k.project) # {}
       /\ ~MemberBySpec(db, k.project, out.actor)
       /\ k \in SeedDb.tasks
  /\ out.resp # 200

\* C33: updateMemberRole has no last-admin and no creator guard.  A request
\* by an admin actor for an existing membership row of the project with a
\* known role is never turned away by the handler's checks, whichever row it
\* names, and its save is never refused while the row exists; when it
\* answers 200 having written, the row carries the new role, and every
\* project still has a user for whom isAdmin is true, its creator.
C33_NoLastAdminGuard ==
  [][ /\ (Ends("updateMemberRole") /\ out'.pc # "ur_save" /\ out'.fail = "none") =>
           ~ /\ isValid(out'.pid) /\ isValid(out'.target)
             /\ out'.role \in AvailableUserRoles
             /\ findById(db, out'.pid) # {}
             /\ findOne(db, out'.pid, out'.target).id # NoRow
             /\ Truthy(isProjectAdmin(db, out'.pid, out'.actor, "none"))
      /\ (Ends("updateMemberRole") /\ out'.pc = "ur_save" /\ out'.fail = "none"
            /\ \E m \in db.members : m.id = out'.mrow) => out'.resp = 200
      /\ (Ends("updateMemberRole") /\ out'.resp = 200) =>
           /\ \E m \in db'.members :
                /\ m.id = out'.mrow /\ m.project = out'.pid
                /\ m.users = out'.target
                /\ isModified(out'.seen, out'.role) => m.role = out'.role
           /\ \A p \in db'.projects :
                Truthy(isProjectAdmin(db', p.id, p.createdBy, "none"))
    ]_vars

\* an updateMemberRole that answered 200 and took the admin role from the
\* creator's own row, leaving the project with no row whose role is admin
C33_Witness ==
  /\ out.op = "updateMemberRole"
  /\ out.resp = 200
  /\ out.role # UserRolesEnum.ADMIN
  /\ \E p \in db.projects :
       /\ p.id = out.pid
       /\ p.createdBy = out.target
       /\ \E m \in db.members : m.project = p.id /\ m.users = p.createdBy /\ m.role = out.role
       /\ \A m \in db.members : m.project = p.id => m.role # UserRolesEnum.ADMIN
       /\ Truthy(isProjectAdmin(db, p.id, p.createdBy, "none"))

\* C34: deleteProject leaves every Note row unchanged.  The step in which a
\* deleteProject ends, and every step in which a project leaves the store,
\* leaves the notes as they were, those of the deleted project included.
C34_DeleteProjectKeepsNotes ==
  [][ ( \/ Ends("deleteProject")
        \/ \E p \in db.projects : findById(db', p.id) = {} ) =>
        db'.notes = db.notes
    ]_vars

\* a deleteProject that answered 200: the project is gone and a note that
\* references it is still in the store
C34_Witness ==
  /\ out.op = "deleteProject"
  /\ out.resp = 200
  /\ findById(db, out.pid) = {}
  /\ \E n \in db.notes : n.project = out.pid

\* C35: every invocation ends with one outcome delivered to the caller.
\* Every project, task or note request whose handler has run to its end has
\* been answered, with a success or with an error, the deleteProject and the
\* deleteTask whose transaction failed and was aborted included.
C35_OneOutcomeDelivered ==
  [][ \A op \in StateChangingOps : Ends(op) => out'.resp # 0 ]_vars

MembershipOps == {"addMember", "removeMember", "updateMemberRole"}

\* C36: an addMember, removeMember or updateMemberRole that returns an error
\* has changed no ProjectMember row: the step in which such a call fails,
\* which is the only step of the call that writes, leaves the rows and their
\* roles as they were.
C36_FailedCallChangesNoMembership ==
  [][ \A op \in MembershipOps :
        (Ends(op) /\ out'.resp >= 400) => db'.members = db.members ]_vars

\* the actor of the finished updateTask r may update task k of store d
MayUpdateTask(d, r, k) ==
  /\ k.id = r.mrow
  /\ MemberBySpec(d, k.project, r.actor)
  /\ \/ k.assignedBy = r.actor
     \/ k.assignedTo = r.actor
     \/ AdminBySpec(d, k.project, r.actor)

\* C37 (as claimed): an updateTask by an actor who may update the task,
\* naming no assignee or a member of the task's project, with no store
\* failure, stores a valid non-null dueDate as the task's dueDate, clears the
\* dueDate when the body gives null or the empty string, and leaves it as it
\* was when the body does not mention dueDate.
C37_DueDateUpdated ==
  [][ (Ends("updateTask") /\ out'.fail = "none") =>
        \A k \in db.tasks :
          ( /\ MayUpdateTask(db, out', k)
            /\ Present(out'.target) => MemberBySpec(db, k.project, out'.target) ) =>
            \E n \in db'.tasks :
              /\ n.id = k.id
              /\ (Present(out'.due) /\ isValidDate(out'.due)) => n.dueDate = NewDate(out'.due)
              /\ out'.due \in {JsNull, ""} => n.dueDate = NoDate
              /\ out'.due = Undefined => n.dueDate = k.dueDate
    ]_vars

\* C38: in every reachable state, for every project and every user, isAdmin
\* implies isMember: whenever the admin resolver answers true for a project
\* id and a user id, the membership resolver answers true for them as well.
C38_AdminImpliesMember ==
  \A projectId \in ProjInputs, userId \in UserInputs :
    isProjectAdmin(db, projectId, userId, "none") = "true" =>
      isProjectMember(db, projectId, userId, "none") = "true"

\* a user who is not the creator of a project and holds a membership row of
\* it whose role is admin: admin and member of the project
C38_Witness ==
  \E m \in db.members :
    /\ m.role = UserRolesEnum.ADMIN
    /\ \E p \in findById(db, m.project) : p.createdBy # m.users
    /\ Truthy(isProjectAdmin(db, m.project, m.users, "none"))
    /\ Truthy(isProjectMember(db, m.project, m.users, "none"))

====
